---- MODULE Spec2Model ----
(***************************************************************************)
(* CurriculumTracker: the project service (services/project.go), the       *)
(* progress service (services/progress.go), the time entries, the notes,   *)
(* the per-curriculum summary and the per-learner statistics, over the     *)
(* tables of database/migration.go, and the progress update, the time      *)
(* entries and the analytics of cmd/server.                                *)
(*                                                                         *)
(* The store is the shared state; every SQL statement is atomic.  Spec,    *)
(* SpecCreateDelete, SpecPrereq, SpecOwnership, SpecProgress, SpecTime,    *)
(* SpecStats, SpecAnalytics and SpecLegacyTime run the calls one at a time *)
(* (each call is one step, or the steps of one call follow each other);    *)
(* SpecConcurrentCreate, SpecConcurrentProgress and SpecLegacyProgress     *)
(* interleave the statements of the calls of several request handlers.     *)
(***************************************************************************)
EXTENDS Integers, Sequences, FiniteSets, TLC

VARIABLES
    curricula,      \* table curricula: rows [id, user_id]
    projects,       \* table projects: rows [id, curriculum_id, identifier,
                    \*   project_type, position_order, prerequisites]
    nextProjectId,  \* the SERIAL sequence behind projects.id
    result,         \* what the last finished service call got and returned
    calls,          \* CreateProject calls in flight, by request handler
    issued,         \* history: <<curriculum, identifier>> pairs CreateProject returned
    createdCount,   \* history: successful CreateProject calls per <<curriculum, type>>
    anyDeleted,     \* history: some DeleteProject has removed a row
    progress,       \* table progress: rows [id, user_id, project_id, status,
                    \*   completion_percentage, started_at, completed_at]
    timeEntries,    \* table time_entries: rows [id, user_id, project_id, minutes]
    projectProgress,\* table project_progress of cmd/server: rows [id, user_id,
                    \*   project_id, status, time_spent_minutes, started_at, completed_at]
    nextRowId,      \* the next id of a progress, time entry or project_progress row
    now,            \* the clock time.Now() reads
    presult,        \* what the last finished progress or analytics call returned
    pcalls,         \* progress updates in flight, by request handler
    notes,          \* table notes: rows [id, user_id, project_id]
    legacyTimeEntries \* table time_entries of cmd/server: rows [id, user_id,
                    \*   project_id, minutes, logged_at]

vars == <<curricula, projects, nextProjectId, result, calls, issued,
          createdCount, anyDeleted, progress, timeEntries, projectProgress,
          nextRowId, now, presult, pcalls, notes, legacyTimeEntries>>

\* the tables and bookkeeping the project service never writes, and those it
\* writes only through ON DELETE CASCADE
trackingAux == <<projectProgress, nextRowId, now, presult, pcalls,
                 legacyTimeEntries>>

trackingVars == <<progress, timeEntries, notes, trackingAux>>

\* the tables only the note and cmd/server time entry calls write
recordVars == <<notes, legacyTimeEntries>>

\* the tables and bookkeeping of the project service
projectVars == <<curricula, projects, nextProjectId, result, calls, issued,
                 createdCount, anyDeleted>>

----------------------------------------------------------------------------
(* Bounds of the model. *)

\* projects.id values the SERIAL hands out before the model stops creating
MaxProjects == 2
\* request handlers running CreateProject at the same time
NumHandlers == 2
\* longest prerequisites list a request carries
MaxPrereqs == 1
\* rows the progress, time_entries and project_progress tables get in a run
MaxRows == 4
\* the latest time the clock reaches
MaxTime == 3

----------------------------------------------------------------------------
(* models/project.go: the project types. *)

ProjectTypeRoot == "root"
ProjectTypeRootTest == "rootTest"
ProjectTypeBase == "base"
ProjectTypeBaseTest == "baseTest"
ProjectTypeLowerBranch == "lowerBranch"
ProjectTypeMiddleBranch == "middleBranch"
ProjectTypeUpperBranch == "upperBranch"
ProjectTypeFlowerMilestone == "flowerMilestone"

isValidProjectType(projectType) ==
    projectType \in {ProjectTypeRoot, ProjectTypeRootTest, ProjectTypeBase,
                     ProjectTypeBaseTest, ProjectTypeLowerBranch,
                     ProjectTypeMiddleBranch, ProjectTypeUpperBranch,
                     ProjectTypeFlowerMilestone}

----------------------------------------------------------------------------
(* Errors the service returns (the text of each fmt.Errorf); "" is nil. *)

ErrCurriculumNotFound == "curriculum not found"
ErrUnknownProjectType == "unknown project type"
ErrTestProjectExists == "test project already exists in this curriculum"
ErrPrereqDoesNotExist == "prerequisite does not exist in this curriculum"
ErrPrereqMustComeBefore == "prerequisite must come before this project"
ErrInvalidProjectType == "invalid project type"
ErrProjectNotFound == "project not found"
ErrHasDependents == "cannot delete project: other projects depend on it"

----------------------------------------------------------------------------
(* Identifier allocation. *)

\* SELECT COUNT(*) FROM projects WHERE curriculum_id = $1 AND project_type = $2
CountOfType(rows, curriculumID, projectType) ==
    Cardinality({p \in rows : /\ p.curriculum_id = curriculumID
                              /\ p.project_type = projectType})

generateSequentialIdentifier(rows, curriculumID, projectType, prefix) ==
    [err |-> "",
     identifier |-> prefix \o ToString(CountOfType(rows, curriculumID, projectType) + 1)]

generateTestIdentifier(rows, curriculumID, projectType, prefix) ==
    IF CountOfType(rows, curriculumID, projectType) > 0
    THEN [err |-> ErrTestProjectExists, identifier |-> ""]
    ELSE [err |-> "", identifier |-> prefix]

generateBranchIdentifier(rows, curriculumID, projectType, prefix) ==
    [err |-> "",
     identifier |-> prefix \o ToString(CountOfType(rows, curriculumID, projectType) + 1)]

generateIdentifier(rows, curriculumID, projectType) ==
    CASE projectType = ProjectTypeRoot ->
            generateSequentialIdentifier(rows, curriculumID, projectType, "R")
      [] projectType = ProjectTypeRootTest ->
            generateTestIdentifier(rows, curriculumID, projectType, "RT")
      [] projectType = ProjectTypeBase ->
            generateSequentialIdentifier(rows, curriculumID, projectType, "B")
      [] projectType = ProjectTypeBaseTest ->
            generateTestIdentifier(rows, curriculumID, projectType, "BT")
      [] projectType = ProjectTypeLowerBranch ->
            generateBranchIdentifier(rows, curriculumID, projectType, "LB")
      [] projectType = ProjectTypeMiddleBranch ->
            generateBranchIdentifier(rows, curriculumID, projectType, "MB")
      [] projectType = ProjectTypeUpperBranch ->
            generateBranchIdentifier(rows, curriculumID, projectType, "UB")
      [] projectType = ProjectTypeFlowerMilestone ->
            generateSequentialIdentifier(rows, curriculumID, projectType, "F")
      [] OTHER -> [err |-> ErrUnknownProjectType, identifier |-> ""]

----------------------------------------------------------------------------
(* Prerequisite validation. *)

\* strings.TrimSpace, on the blanks a request can carry
RECURSIVE TrimLeft(_)
TrimLeft(s) ==
    IF Len(s) > 0 /\ SubSeq(s, 1, 1) = " " THEN TrimLeft(SubSeq(s, 2, Len(s))) ELSE s

RECURSIVE TrimRight(_)
TrimRight(s) ==
    IF Len(s) > 0 /\ SubSeq(s, Len(s), Len(s)) = " "
    THEN TrimRight(SubSeq(s, 1, Len(s) - 1))
    ELSE s

TrimSpace(s) == TrimRight(TrimLeft(s))

\* the value currentOrder keeps when there is no current project
NoCurrentOrder == -1

\* the rows of SELECT identifier, position_order FROM projects WHERE curriculum_id = $1
RowsOfCurriculum(rows, curriculumID) == {p \in rows : p.curriculum_id = curriculumID}

\* _, exists := projectOrders[identifier]
InProjectOrders(rows, curriculumID, identifier) ==
    \E p \in RowsOfCurriculum(rows, curriculumID) : p.identifier = identifier

\* projectOrders[identifier]: the rows come ORDER BY position_order and each row
\* overwrites the entry of an earlier row with the same identifier
projectOrders(rows, curriculumID, identifier) ==
    LET orders == {p.position_order : p \in {q \in RowsOfCurriculum(rows, curriculumID) :
                                                q.identifier = identifier}}
    IN CHOOSE o \in orders : \A x \in orders : x <= o

\* currentOrder after "Get current project's order if it exists (for updates)"
CurrentOrder(rows, curriculumID, currentIdentifier) ==
    IF currentIdentifier # "" /\ InProjectOrders(rows, curriculumID, currentIdentifier)
    THEN projectOrders(rows, curriculumID, currentIdentifier)
    ELSE NoCurrentOrder

\* the check of one prerequisite against currentOrder
PrerequisiteOutOfOrder(order, currentOrder) ==
    currentOrder # NoCurrentOrder /\ order >= currentOrder

\* the loop "Validate each prerequisite": the first error, or ""
RECURSIVE validateEach(_, _, _, _)
validateEach(rows, curriculumID, prerequisites, currentOrder) ==
    IF prerequisites = <<>> THEN ""
    ELSE LET prereq == TrimSpace(Head(prerequisites)) IN
         IF prereq = ""
         THEN validateEach(rows, curriculumID, Tail(prerequisites), currentOrder)
         ELSE IF ~InProjectOrders(rows, curriculumID, prereq)
         THEN ErrPrereqDoesNotExist
         ELSE IF PrerequisiteOutOfOrder(projectOrders(rows, curriculumID, prereq),
                                        currentOrder)
         THEN ErrPrereqMustComeBefore
         ELSE validateEach(rows, curriculumID, Tail(prerequisites), currentOrder)

validatePrerequisites(rows, curriculumID, prerequisites, currentIdentifier) ==
    IF Len(prerequisites) = 0 THEN ""
    ELSE validateEach(rows, curriculumID, prerequisites,
                      CurrentOrder(rows, curriculumID, currentIdentifier))

----------------------------------------------------------------------------
(* The calls of ProjectService, each on the tables as they are when it runs. *)

\* SELECT EXISTS(SELECT 1 FROM curricula WHERE id = $1)
CurriculumExists(curriculumID) == \E c \in curricula : c.id = curriculumID

\* INNER JOIN curricula c ON p.curriculum_id = c.id ... AND c.user_id = $n
OwnedBy(p, userID) ==
    \E c \in curricula : c.id = p.curriculum_id /\ c.user_id = userID

\* CreateProject up to the INSERT: the error it returns, and the identifier
createProjectChecks(rows, curriculumID, req) ==
    LET gen == generateIdentifier(rows, curriculumID, req.project_type)
        invalid == validatePrerequisites(rows, curriculumID, req.prerequisites, "")
    IN IF ~CurriculumExists(curriculumID)
       THEN [err |-> ErrCurriculumNotFound, identifier |-> ""]
       ELSE IF gen.err # "" THEN gen
       ELSE IF invalid # "" THEN [err |-> invalid, identifier |-> ""]
       ELSE IF ~isValidProjectType(req.project_type)
       THEN [err |-> ErrInvalidProjectType, identifier |-> ""]
       ELSE gen

\* the row INSERT INTO projects ... RETURNING writes
InsertedRow(id, curriculumID, identifier, req) ==
    [id |-> id,
     curriculum_id |-> curriculumID,
     identifier |-> identifier,
     project_type |-> req.project_type,
     position_order |-> req.position_order,
     prerequisites |-> req.prerequisites]

\* the result of a call: the error, and the row it returned (if any)
Outcome(op, err, id, curriculumID, identifier, req) ==
    [op |-> op, err |-> err, id |-> id, curriculum_id |-> curriculumID,
     identifier |-> identifier, req |-> req]

NoRequest ==
    [identifier |-> "", project_type |-> "", position_order |-> 0,
     prerequisites |-> <<>>]

\* history: how often key was counted, and the count with key counted once more
CountOf(counts, key) == IF key \in DOMAIN counts THEN counts[key] ELSE 0

CountedOnce(counts, key) ==
    [k \in DOMAIN counts \cup {key} |->
        IF k = key THEN CountOf(counts, key) + 1 ELSE counts[k]]

CreateProject(curriculumID, req) ==
    LET chk == createProjectChecks(projects, curriculumID, req) IN
    IF chk.err # ""
    THEN /\ result' = Outcome("CreateProject", chk.err, 0, curriculumID, "", req)
         /\ UNCHANGED trackingVars
         /\ UNCHANGED <<curricula, projects, nextProjectId, calls, issued,
                        createdCount, anyDeleted>>
    ELSE /\ nextProjectId <= MaxProjects
         /\ projects' = projects \cup
                {InsertedRow(nextProjectId, curriculumID, chk.identifier, req)}
         /\ nextProjectId' = nextProjectId + 1
         /\ result' = Outcome("CreateProject", "", nextProjectId, curriculumID,
                              chk.identifier, req)
         /\ issued' = issued \cup {<<curriculumID, chk.identifier>>}
         /\ createdCount' = CountedOnce(createdCount, <<curriculumID, req.project_type>>)
         /\ UNCHANGED trackingVars
         /\ UNCHANGED <<curricula, calls, anyDeleted>>

\* ProjectHandler.CreateProject: the user id of the request context is read
\* into "_" and the service is called with the curriculum id of the path
ProjectHandlerCreateProject(userID, curriculumID, req) ==
    CreateProject(curriculumID, req)

\* GetProjectByID: the rows with that id in a curriculum of the user
GetProjectByID(rows, userID, projectID) ==
    {p \in rows : p.id = projectID /\ OwnedBy(p, userID)}

\* an UPDATE that also wrote the identifier the request carries
UpdatedRowTakingIdentifier(p, req) ==
    [p EXCEPT !.identifier = IF req.identifier # "" THEN req.identifier ELSE @,
              !.prerequisites = req.prerequisites,
              !.project_type = req.project_type,
              !.position_order = req.position_order]

\* UPDATE projects SET ..., prerequisites = $5, project_type = $6, position_order = $7
UpdatedRow(p, req) ==
    [p EXCEPT !.prerequisites = req.prerequisites,
              !.project_type = req.project_type,
              !.position_order = req.position_order]

UpdateProject(userID, projectID, req) ==
    LET found == GetProjectByID(projects, userID, projectID) IN
    IF found = {}
    THEN /\ result' = Outcome("UpdateProject", ErrProjectNotFound, projectID, 0, "", req)
         /\ UNCHANGED trackingVars
         /\ UNCHANGED <<curricula, projects, nextProjectId, calls, issued,
                        createdCount, anyDeleted>>
    ELSE LET currentProject == CHOOSE p \in found : TRUE
             invalid == validatePrerequisites(projects, currentProject.curriculum_id,
                                              req.prerequisites,
                                              currentProject.identifier)
             err == IF invalid # "" THEN invalid
                    ELSE IF ~isValidProjectType(req.project_type)
                    THEN ErrInvalidProjectType
                    ELSE ""
             row == UpdatedRow(currentProject, req)
         IN IF err # ""
            THEN /\ result' = Outcome("UpdateProject", err, projectID,
                                      currentProject.curriculum_id, "", req)
                 /\ UNCHANGED trackingVars
                 /\ UNCHANGED <<curricula, projects, nextProjectId, calls, issued,
                                createdCount, anyDeleted>>
            ELSE /\ projects' = (projects \ {currentProject}) \cup {row}
                 /\ result' = Outcome("UpdateProject", "", projectID,
                                      row.curriculum_id, row.identifier, req)
                 /\ UNCHANGED trackingVars
                 /\ UNCHANGED <<curricula, nextProjectId, calls, issued,
                                createdCount, anyDeleted>>

\* the elements of a TEXT[] column
Elements(seq) == {seq[i] : i \in 1..Len(seq)}

\* SELECT COUNT(*) ... WHERE c.user_id = $1 AND $2 = ANY(p.prerequisites):
\* $2 is the project's id, which the store compares as text with the elements
dependentCount(rows, userID, projectID) ==
    Cardinality({p \in rows : /\ OwnedBy(p, userID)
                              /\ ToString(projectID) \in Elements(p.prerequisites)})

\* project_id ... REFERENCES projects(id) ON DELETE CASCADE
CascadeDelete(rows, projectID) == {r \in rows : r.project_id # projectID}

DeleteProject(userID, projectID) ==
    LET found == GetProjectByID(projects, userID, projectID) IN
    IF dependentCount(projects, userID, projectID) > 0
    THEN /\ result' = Outcome("DeleteProject", ErrHasDependents, projectID, 0, "",
                              NoRequest)
         /\ UNCHANGED trackingVars
         /\ UNCHANGED <<curricula, projects, nextProjectId, calls, issued,
                        createdCount, anyDeleted>>
    ELSE IF found = {}
    THEN /\ result' = Outcome("DeleteProject", ErrProjectNotFound, projectID, 0, "",
                              NoRequest)
         /\ UNCHANGED trackingVars
         /\ UNCHANGED <<curricula, projects, nextProjectId, calls, issued,
                        createdCount, anyDeleted>>
    ELSE /\ projects' = projects \ found
         /\ progress' = CascadeDelete(progress, projectID)
         /\ timeEntries' = CascadeDelete(timeEntries, projectID)
         /\ notes' = CascadeDelete(notes, projectID)
         /\ result' = Outcome("DeleteProject", "", projectID, 0, "", NoRequest)
         /\ anyDeleted' = TRUE
         /\ UNCHANGED <<trackingAux, curricula, nextProjectId, calls, issued,
                        createdCount>>

----------------------------------------------------------------------------
(* The progress service (services/progress.go) behind ProgressHandler, over  *)
(* the progress table.                                                       *)

StatusNotStarted == "not_started"
StatusInProgress == "in_progress"
StatusCompleted == "completed"
StatusOnHold == "on_hold"
StatusAbandoned == "abandoned"

\* a sql.NullTime that is not Valid, a NULL timestamp; the clock starts after it
NullTime == 0

ErrStatusRequired == "Status is required"
ErrInvalidStatus == "Invalid status"
ErrPercentageRange == "Completion percentage must be between 0 and 100"
ErrUpdateProgressFailed == "Failed to update progress"

validStatuses ==
    {StatusNotStarted, StatusInProgress, StatusCompleted, StatusOnHold,
     StatusAbandoned}

\* a request that took any percentage
PercentageAccepted(percentage) == TRUE

\* req.CompletionPercentage < 0 || req.CompletionPercentage > 100, negated
PercentageInRange(percentage) == ~(percentage < 0 \/ percentage > 100)

\* the checks of ProgressHandler.UpdateProgress on the decoded request
validateProgressRequest(req) ==
    IF req.status = "" THEN ErrStatusRequired
    ELSE IF req.status \notin validStatuses THEN ErrInvalidStatus
    ELSE IF ~PercentageInRange(req.completion_percentage) THEN ErrPercentageRange
    ELSE ""

\* ... FROM progress WHERE user_id = $1 AND project_id = $2
ProgressOf(rows, userID, projectID) ==
    {r \in rows : r.user_id = userID /\ r.project_id = projectID}

\* currentStatus and currentStartedAt before the Scan: the zero values
NoCurrent == [status |-> "", started_at |-> NullTime]

\* currentStatus and currentStartedAt after the Scan: zero values on ErrNoRows
CurrentProgress(rows, userID, projectID) ==
    IF ProgressOf(rows, userID, projectID) = {}
    THEN NoCurrent
    ELSE LET r == CHOOSE x \in ProgressOf(rows, userID, projectID) : TRUE
         IN [status |-> r.status, started_at |-> r.started_at]

\* a startedAt that is set only by a move to in_progress
startedAtOnlyInProgress(current, status, t) ==
    IF status = StatusInProgress /\ current.started_at = NullTime THEN t
    ELSE current.started_at

\* startedAt: "If transitioning from not_started to any other status, set
\* started_at", else "Preserve existing started_at"
startedAtFor(current, status, t) ==
    IF (current.status = "" \/ current.status = StatusNotStarted)
       /\ status # StatusNotStarted
    THEN t
    ELSE IF current.started_at # NullTime THEN current.started_at
    ELSE NullTime

\* a completed_at that every update sets
completedAtAlways(status, t) == t

\* completedAt: "Set completed_at only when transitioning to completed"
completedAtFor(status, t) == IF status = StatusCompleted THEN t ELSE NullTime

\* a percentage stored as the request carries it
percentageAsRequested(status, percentage) == percentage

\* req.CompletionPercentage after the status rules
percentageFor(status, percentage) ==
    IF status = StatusCompleted THEN 100
    ELSE IF status = StatusNotStarted THEN 0
    ELSE IF status = StatusAbandoned /\ percentage = 100 THEN 99
    ELSE percentage

\* a started_at that an update of an existing record never sets
upsertStartedAtKeepingNull(stored, excluded) == stored

\* a started_at that every update overwrites
upsertStartedAtOverwriting(stored, excluded) == excluded

\* started_at = CASE WHEN progress.started_at IS NULL AND EXCLUDED.started_at
\* IS NOT NULL THEN EXCLUDED.started_at ELSE progress.started_at END
upsertStartedAt(stored, excluded) ==
    IF stored = NullTime /\ excluded # NullTime THEN excluded ELSE stored

\* completed_at = CASE WHEN EXCLUDED.status = 'completed' THEN
\* EXCLUDED.completed_at ELSE NULL END
upsertCompletedAt(status, excluded) ==
    IF status = StatusCompleted THEN excluded ELSE NullTime

\* a table without UNIQUE(user_id, project_id): no row ever conflicts
ConflictingWithoutUnique(rows, userID, projectID) == {}

\* the rows the INSERT conflicts with: UNIQUE(user_id, project_id)
Conflicting(rows, userID, projectID) == ProgressOf(rows, userID, projectID)

\* the row VALUES ($1, $2, $3, $4, $5, $6) proposes
ProposedProgress(id, userID, projectID, status, percentage, startedAt, completedAt) ==
    [id |-> id, user_id |-> userID, project_id |-> projectID, status |-> status,
     completion_percentage |-> percentage, started_at |-> startedAt,
     completed_at |-> completedAt]

\* ON CONFLICT (user_id, project_id) DO UPDATE SET ...
UpdatedProgress(stored, excluded) ==
    [stored EXCEPT !.status = excluded.status,
                   !.completion_percentage = excluded.completion_percentage,
                   !.started_at = upsertStartedAt(stored.started_at,
                                                  excluded.started_at),
                   !.completed_at = upsertCompletedAt(excluded.status,
                                                      excluded.completed_at)]

\* the table after INSERT INTO progress ... ON CONFLICT ... DO UPDATE
Upserted(rows, excluded) ==
    LET hit == Conflicting(rows, excluded.user_id, excluded.project_id) IN
    IF hit = {} THEN rows \cup {excluded}
    ELSE {IF r \in hit THEN UpdatedProgress(r, excluded) ELSE r : r \in rows}

\* the row RETURNING gives back
Returned(rows, excluded) ==
    LET hit == Conflicting(rows, excluded.user_id, excluded.project_id) IN
    IF hit = {} THEN excluded
    ELSE UpdatedProgress(CHOOSE r \in hit : TRUE, excluded)

\* project_id INTEGER NOT NULL REFERENCES projects(id)
ProjectExists(projectID) == \E p \in projects : p.id = projectID

NoProgress ==
    [id |-> 0, user_id |-> 0, project_id |-> 0, status |-> "",
     completion_percentage |-> 0, started_at |-> NullTime, completed_at |-> NullTime]

NoProgressRequest == [status |-> "", completion_percentage |-> 0]

\* a request handler that runs no progress update
PIdle ==
    [pc |-> "idle", user_id |-> 0, project_id |-> 0, req |-> NoProgressRequest,
     current |-> NoCurrent, excluded |-> NoProgress, at |-> 0]

\* the result of a progress call: the error or the row it returned, the time
\* the call was made at, what it read and the row it sent to the store
ProgressOutcome(op, err, userID, projectID, req, at, read, sent, row) ==
    [op |-> op, err |-> err, user_id |-> userID, project_id |-> projectID,
     req |-> req, at |-> at, read |-> read, sent |-> sent, row |-> row]

\* the row the service proposes for a request, from what it read and the time
ProposedFor(id, userID, projectID, req, current, t) ==
    ProposedProgress(id, userID, projectID, req.status,
                     percentageFor(req.status, req.completion_percentage),
                     startedAtFor(current, req.status, t),
                     completedAtFor(req.status, t))

----------------------------------------------------------------------------
(* The state after the migrations and the creation of one curriculum by each *)
(* of two users; no project yet.                                             *)

Users == {1, 2}

InitialCurricula == {[id |-> 1, user_id |-> 1], [id |-> 2, user_id |-> 2]}

ValidProjectTypes ==
    {ProjectTypeRoot, ProjectTypeRootTest, ProjectTypeBase, ProjectTypeBaseTest,
     ProjectTypeLowerBranch, ProjectTypeMiddleBranch, ProjectTypeUpperBranch,
     ProjectTypeFlowerMilestone}

Idle ==
    [pc |-> "idle", curriculum_id |-> 0, identifier |-> "", req |-> NoRequest]

Init ==
    /\ curricula = InitialCurricula
    /\ projects = {}
    /\ nextProjectId = 1
    /\ result = Outcome("", "", 0, 0, "", NoRequest)
    /\ calls = [h \in 1..NumHandlers |-> Idle]
    /\ issued = {}
    /\ createdCount = <<>>
    /\ anyDeleted = FALSE
    /\ progress = {}
    /\ timeEntries = {}
    /\ projectProgress = {}
    /\ nextRowId = 1
    /\ now = 1
    /\ presult = ProgressOutcome("", "", 0, 0, NoProgressRequest, 0, NoCurrent,
                                 NoProgress, NoProgress)
    /\ pcalls = [h \in 1..NumHandlers |-> PIdle]
    /\ notes = {}
    /\ legacyTimeEntries = {}

----------------------------------------------------------------------------
(* What the requests carry. *)

\* curriculum ids of a request: the two curricula and one that does not exist
CurriculumInputs == {c.id : c \in InitialCurricula} \cup {3}

\* project ids of a request: every id the sequence has handed out, and the next
ProjectIdInputs == 1..nextProjectId

\* project_type of a request: a numbered type, a test type, and one that is no type
TypeInputs == {ProjectTypeRoot, ProjectTypeRootTest, "leaf"}

\* CreateProject requests that differ in type
CreateTypeRequests ==
    [identifier : {""}, project_type : TypeInputs, position_order : {0},
     prerequisites : {<<>>}]

\* UpdateProject requests that differ in type and in the identifier they carry
UpdateTypeRequests ==
    [identifier : {"", "R9"}, project_type : TypeInputs, position_order : {0},
     prerequisites : {<<>>}]

\* Calls run one at a time, over the requests that differ in type.
Next ==
    \/ \E c \in CurriculumInputs, req \in CreateTypeRequests : CreateProject(c, req)
    \/ \E u \in Users, id \in ProjectIdInputs, req \in UpdateTypeRequests :
           UpdateProject(u, id, req)
    \/ \E u \in Users, id \in ProjectIdInputs : DeleteProject(u, id)

Spec == Init /\ [][Next]_vars

\* Calls run one at a time and no project is updated.
NextCreateDelete ==
    \/ \E c \in CurriculumInputs, req \in CreateTypeRequests : CreateProject(c, req)
    \/ \E u \in Users, id \in ProjectIdInputs : DeleteProject(u, id)

SpecCreateDelete == Init /\ [][NextCreateDelete]_vars

\* Calls run one at a time, each made by a learner through the handlers.
NextOwnership ==
    \/ \E u \in Users, c \in CurriculumInputs, req \in CreateTypeRequests :
           ProjectHandlerCreateProject(u, c, req)
    \/ \E u \in Users, id \in ProjectIdInputs, req \in UpdateTypeRequests :
           UpdateProject(u, id, req)
    \/ \E u \in Users, id \in ProjectIdInputs : DeleteProject(u, id)

SpecOwnership == Init /\ [][NextOwnership]_vars

----------------------------------------------------------------------------
(* Calls run one at a time, over the requests that differ in position and in *)
(* prerequisites.                                                            *)

\* position_order of a request: the value currentOrder starts from, zero and one
\* positive order
OrderInputs == {NoCurrentOrder, 0, 1}

\* the texts a prerequisites list is made of: the identifiers of the first two
\* root projects, one of them with a blank before it, and the text of a project id
PrereqInputs == {"R1", "R2", " R1", "1"}

RECURSIVE SeqsUpTo(_, _)
SeqsUpTo(S, n) ==
    IF n = 0 THEN {<<>>}
    ELSE LET shorter == SeqsUpTo(S, n - 1)
         IN shorter \cup {Append(q, x) : q \in {r \in shorter : Len(r) = n - 1}, x \in S}

PrereqRequests ==
    [identifier : {""}, project_type : {ProjectTypeRoot},
     position_order : OrderInputs, prerequisites : SeqsUpTo(PrereqInputs, MaxPrereqs)]

\* the user a project belongs to, through its curriculum
OwnerOf(p) == (CHOOSE c \in curricula : c.id = p.curriculum_id).user_id

\* every call is made by the owner, on a curriculum or project that exists
NextPrereq ==
    \/ \E c \in {x.id : x \in curricula}, req \in PrereqRequests : CreateProject(c, req)
    \/ \E p \in projects, req \in PrereqRequests : UpdateProject(OwnerOf(p), p.id, req)
    \/ \E p \in projects : DeleteProject(OwnerOf(p), p.id)

SpecPrereq == Init /\ [][NextPrereq]_vars

----------------------------------------------------------------------------
(* CreateProject calls of several request handlers at once: the statements   *)
(* of one call are separate steps, and each sees the table as it is then.    *)

InFlight(pc, curriculumID, identifier, req) ==
    [pc |-> pc, curriculum_id |-> curriculumID, identifier |-> identifier, req |-> req]

\* the call starts: SELECT EXISTS(SELECT 1 FROM curricula WHERE id = $1)
CreateBegin(h, curriculumID, req) ==
    /\ calls[h] = Idle
    /\ IF ~CurriculumExists(curriculumID)
       THEN /\ result' = Outcome("CreateProject", ErrCurriculumNotFound, 0,
                                 curriculumID, "", req)
            /\ UNCHANGED calls
       ELSE /\ calls' = [calls EXCEPT ![h] = InFlight("generate", curriculumID, "", req)]
            /\ UNCHANGED result
    /\ UNCHANGED trackingVars
    /\ UNCHANGED <<curricula, projects, nextProjectId, issued, createdCount, anyDeleted>>

\* generateIdentifier: the COUNT(*) query
CreateGenerate(h) ==
    /\ calls[h].pc = "generate"
    /\ LET c == calls[h]
           gen == generateIdentifier(projects, c.curriculum_id, c.req.project_type)
       IN IF gen.err # ""
          THEN /\ result' = Outcome("CreateProject", gen.err, 0, c.curriculum_id, "",
                                    c.req)
               /\ calls' = [calls EXCEPT ![h] = Idle]
          ELSE /\ calls' = [calls EXCEPT
                               ![h] = InFlight("validate", c.curriculum_id,
                                               gen.identifier, c.req)]
               /\ UNCHANGED result
    /\ UNCHANGED trackingVars
    /\ UNCHANGED <<curricula, projects, nextProjectId, issued, createdCount, anyDeleted>>

\* validatePrerequisites: the SELECT identifier, position_order query
CreateValidate(h) ==
    /\ calls[h].pc = "validate"
    /\ LET c == calls[h]
           invalid == validatePrerequisites(projects, c.curriculum_id,
                                            c.req.prerequisites, "")
       IN IF invalid # ""
          THEN /\ result' = Outcome("CreateProject", invalid, 0, c.curriculum_id, "",
                                    c.req)
               /\ calls' = [calls EXCEPT ![h] = Idle]
          ELSE /\ calls' = [calls EXCEPT ![h].pc = "insert"]
               /\ UNCHANGED result
    /\ UNCHANGED trackingVars
    /\ UNCHANGED <<curricula, projects, nextProjectId, issued, createdCount, anyDeleted>>

\* INSERT INTO projects ... RETURNING
CreateInsert(h) ==
    /\ calls[h].pc = "insert"
    /\ nextProjectId <= MaxProjects
    /\ LET c == calls[h] IN
       /\ projects' = projects \cup
              {InsertedRow(nextProjectId, c.curriculum_id, c.identifier, c.req)}
       /\ result' = Outcome("CreateProject", "", nextProjectId, c.curriculum_id,
                            c.identifier, c.req)
       /\ issued' = issued \cup {<<c.curriculum_id, c.identifier>>}
       /\ createdCount' = CountedOnce(createdCount,
                                       <<c.curriculum_id, c.req.project_type>>)
    /\ nextProjectId' = nextProjectId + 1
    /\ calls' = [calls EXCEPT ![h] = Idle]
    /\ UNCHANGED trackingVars
    /\ UNCHANGED <<curricula, anyDeleted>>

\* CreateProject requests of a numbered, a test and a branch type, and of no type
CreateKindRequests ==
    [identifier : {""},
     project_type : {ProjectTypeRoot, ProjectTypeRootTest, ProjectTypeLowerBranch, "leaf"},
     position_order : {0}, prerequisites : {<<>>}]

NextConcurrentCreate ==
    \E h \in 1..NumHandlers :
        \/ \E c \in CurriculumInputs, req \in CreateKindRequests :
               CreateBegin(h, c, req)
        \/ CreateGenerate(h)
        \/ CreateValidate(h)
        \/ CreateInsert(h)

SpecConcurrentCreate == Init /\ [][NextConcurrentCreate]_vars

----------------------------------------------------------------------------
(* The progress calls, one at a time: PUT and GET /projects/{id}/progress.   *)

\* the default GetProgressByProjectID returned if it had marked the pair started
DefaultProgressInProgress(userID, projectID) ==
    [NoProgress EXCEPT !.user_id = userID, !.project_id = projectID,
                       !.status = StatusInProgress]

\* "Return a default progress object instead of error"
DefaultProgress(userID, projectID) ==
    [NoProgress EXCEPT !.user_id = userID, !.project_id = projectID,
                       !.status = StatusNotStarted]

\* ProgressHandler.UpdateProgress with ProgressService.UpdateProgress
UpdateProgress(userID, projectID, req) ==
    LET invalid == validateProgressRequest(req)
        current == CurrentProgress(progress, userID, projectID)
        excluded == ProposedFor(nextRowId, userID, projectID, req, current, now)
        inserts == Conflicting(progress, userID, projectID) = {}
    IN /\ IF invalid # ""
          THEN /\ presult' = ProgressOutcome("UpdateProgress", invalid, userID,
                                             projectID, req, now, NoCurrent,
                                             NoProgress, NoProgress)
               /\ UNCHANGED <<progress, nextRowId>>
          ELSE IF ~ProjectExists(projectID)
          THEN /\ presult' = ProgressOutcome("UpdateProgress",
                                             ErrUpdateProgressFailed, userID,
                                             projectID, req, now, NoCurrent,
                                             NoProgress, NoProgress)
               /\ UNCHANGED <<progress, nextRowId>>
          ELSE /\ inserts => nextRowId <= MaxRows
               /\ progress' = Upserted(progress, excluded)
               /\ nextRowId' = IF inserts THEN nextRowId + 1 ELSE nextRowId
               /\ presult' = ProgressOutcome("UpdateProgress", "", userID,
                                             projectID, req, now, current,
                                             excluded, Returned(progress, excluded))
       /\ UNCHANGED <<timeEntries, projectProgress, now, pcalls>>
       /\ UNCHANGED recordVars
       /\ UNCHANGED projectVars

\* ProgressHandler.GetProgress with ProgressService.GetProgressByProjectID
GetProgressByProjectID(userID, projectID) ==
    LET found == ProgressOf(progress, userID, projectID) IN
    /\ presult' = ProgressOutcome("GetProgressByProjectID", "", userID, projectID,
                                  NoProgressRequest, now, NoCurrent, NoProgress,
                                  IF found = {}
                                  THEN DefaultProgress(userID, projectID)
                                  ELSE CHOOSE r \in found : TRUE)
    /\ UNCHANGED <<progress, timeEntries, projectProgress, nextRowId, now, pcalls>>
    /\ UNCHANGED recordVars
    /\ UNCHANGED projectVars

\* time passes between two calls or two statements
Tick ==
    /\ now < MaxTime
    /\ now' = now + 1
    /\ UNCHANGED <<progress, timeEntries, projectProgress, nextRowId, presult,
                   pcalls>>
    /\ UNCHANGED recordVars
    /\ UNCHANGED projectVars

\* the one request the progress runs create projects with
RootRequest ==
    [identifier |-> "", project_type |-> ProjectTypeRoot, position_order |-> 0,
     prerequisites |-> <<>>]

\* status of a request: the five statuses and one that is none
StatusInputs == validStatuses \cup {"paused"}

\* completion_percentage of a request: below, inside, at the end of and above
\* the range
PercentageInputs == {-1, 50, 100, 101}

ProgressRequests ==
    [status : StatusInputs, completion_percentage : PercentageInputs]

\* the learner and the project ids of the progress requests
ProgressUsers == {1}

ProgressProjectInputs == {1}

NextProgress ==
    \/ CreateProject(1, RootRequest)
    \/ \E u \in ProgressUsers, p \in ProgressProjectInputs, req \in ProgressRequests :
           UpdateProgress(u, p, req)
    \/ \E u \in ProgressUsers, p \in ProgressProjectInputs :
           GetProgressByProjectID(u, p)
    \/ Tick

SpecProgress == Init /\ [][NextProgress]_vars

----------------------------------------------------------------------------
(* Progress updates of several request handlers at once: the SELECT, the     *)
(* reading of the clock and the INSERT ... ON CONFLICT of one call are        *)
(* separate steps.                                                           *)

PInFlight(pc, userID, projectID, req, current, excluded, at) ==
    [pc |-> pc, user_id |-> userID, project_id |-> projectID, req |-> req,
     current |-> current, excluded |-> excluded, at |-> at]

\* the handler's checks, then SELECT status, started_at FROM progress
ProgressBegin(h, userID, projectID, req) ==
    /\ pcalls[h] = PIdle
    /\ LET invalid == validateProgressRequest(req) IN
       IF invalid # ""
       THEN /\ presult' = ProgressOutcome("UpdateProgress", invalid, userID,
                                          projectID, req, now, NoCurrent,
                                          NoProgress, NoProgress)
            /\ UNCHANGED pcalls
       ELSE /\ pcalls' = [pcalls EXCEPT
                             ![h] = PInFlight("decide", userID, projectID, req,
                                              CurrentProgress(progress, userID,
                                                              projectID),
                                              NoProgress, 0)]
            /\ UNCHANGED presult
    /\ UNCHANGED <<progress, timeEntries, projectProgress, nextRowId, now>>
    /\ UNCHANGED recordVars
    /\ UNCHANGED projectVars

\* time.Now(), and the values of the INSERT from what the SELECT gave
ProgressDecide(h) ==
    /\ pcalls[h].pc = "decide"
    /\ LET c == pcalls[h] IN
       pcalls' = [pcalls EXCEPT
                     ![h] = PInFlight("upsert", c.user_id, c.project_id, c.req,
                                      c.current,
                                      ProposedFor(0, c.user_id, c.project_id,
                                                  c.req, c.current, now),
                                      now)]
    /\ UNCHANGED <<progress, timeEntries, projectProgress, nextRowId, now, presult>>
    /\ UNCHANGED recordVars
    /\ UNCHANGED projectVars

\* INSERT INTO progress ... ON CONFLICT (user_id, project_id) DO UPDATE
ProgressUpsert(h) ==
    /\ pcalls[h].pc = "upsert"
    /\ LET c == pcalls[h]
           excluded == [c.excluded EXCEPT !.id = nextRowId]
           inserts == Conflicting(progress, c.user_id, c.project_id) = {}
       IN IF ~ProjectExists(c.project_id)
          THEN /\ presult' = ProgressOutcome("UpdateProgress",
                                             ErrUpdateProgressFailed, c.user_id,
                                             c.project_id, c.req, c.at, c.current,
                                             NoProgress, NoProgress)
               /\ UNCHANGED <<progress, nextRowId>>
          ELSE /\ inserts => nextRowId <= MaxRows
               /\ progress' = Upserted(progress, excluded)
               /\ nextRowId' = IF inserts THEN nextRowId + 1 ELSE nextRowId
               /\ presult' = ProgressOutcome("UpdateProgress", "", c.user_id,
                                             c.project_id, c.req, c.at, c.current,
                                             excluded, Returned(progress, excluded))
    /\ pcalls' = [pcalls EXCEPT ![h] = PIdle]
    /\ UNCHANGED <<timeEntries, projectProgress, now>>
    /\ UNCHANGED recordVars
    /\ UNCHANGED projectVars

\* the requests of the concurrent updates: a start, a completion and a return
\* to not_started
ConcurrentProgressRequests ==
    [status : {StatusNotStarted, StatusInProgress, StatusCompleted},
     completion_percentage : {50}]

NextConcurrentProgress ==
    \/ CreateProject(1, RootRequest)
    \/ Tick
    \/ \E h \in 1..NumHandlers :
          \/ \E u \in ProgressUsers, p \in ProgressProjectInputs,
                req \in ConcurrentProgressRequests : ProgressBegin(h, u, p, req)
          \/ ProgressDecide(h)
          \/ ProgressUpsert(h)

SpecConcurrentProgress == Init /\ [][NextConcurrentProgress]_vars

----------------------------------------------------------------------------
(* The progress update of cmd/server: Handler.UpdateProjectProgress reads    *)
(* the record with DB.GetOrCreateProjectProgress, changes its copy and       *)
(* writes the copy back with DB.UpdateProjectProgress.  Its projects and     *)
(* curricula tables are the ones above; its records are in project_progress. *)

ErrProjectNotFoundLegacy == "Project not found"
ErrGetProjectFailed == "Failed to get project"
ErrAccessDenied == "Access denied"
ErrGetProgressFailed == "Failed to get progress"

\* the progress object GetOrCreateProjectProgress makes when it finds no row
NewProjectProgress(id, userID, projectID) ==
    [id |-> id, user_id |-> userID, project_id |-> projectID,
     status |-> StatusNotStarted, time_spent_minutes |-> 0,
     started_at |-> NullTime, completed_at |-> NullTime]

\* the handler's copy after progress.Status = req.Status and
\* progress.TimeSpentMinutes = req.TimeSpentMinutes
CopyWithRequest(copy, req) ==
    [copy EXCEPT !.status = req.status,
                 !.time_spent_minutes = req.time_spent_minutes]

\* DB.UpdateProjectProgress: the timestamps it gives the object before the UPDATE
WithTimestamps(copy, t) ==
    [copy EXCEPT
        !.started_at = IF copy.status = StatusInProgress /\ @ = NullTime
                       THEN t ELSE @,
        !.completed_at = IF copy.status = StatusCompleted /\ @ = NullTime
                         THEN t ELSE @]

\* UPDATE project_progress SET status = $1, time_spent_minutes = $2,
\* started_at = $3, completed_at = $4 ... WHERE id = $6
LegacyUpdated(rows, written) ==
    {IF r.id = written.id
     THEN [r EXCEPT !.status = written.status,
                    !.time_spent_minutes = written.time_spent_minutes,
                    !.started_at = written.started_at,
                    !.completed_at = written.completed_at]
     ELSE r : r \in rows}

\* the call starts: GetProjectByID, GetCurriculumByID and the owner check; a
\* missing project is "Project not found" if the driver's error is
\* sql.ErrNoRows and "Failed to get project" if it is an error of its own
LegacyBegin(h, userID, projectID, req) ==
    /\ pcalls[h] = PIdle
    /\ LET found == {p \in projects : p.id = projectID} IN
       IF found = {}
       THEN /\ \E err \in {ErrProjectNotFoundLegacy, ErrGetProjectFailed} :
                  presult' = ProgressOutcome("UpdateProjectProgress", err, userID,
                                             projectID, req, now, NoCurrent,
                                             NoProgress, NoProgress)
            /\ UNCHANGED pcalls
       ELSE IF ~OwnedBy(CHOOSE p \in found : TRUE, userID)
       THEN /\ presult' = ProgressOutcome("UpdateProjectProgress", ErrAccessDenied,
                                          userID, projectID, req, now, NoCurrent,
                                          NoProgress, NoProgress)
            /\ UNCHANGED pcalls
       ELSE /\ pcalls' = [pcalls EXCEPT
                             ![h] = PInFlight("get", userID, projectID, req,
                                              NoCurrent, NoProgress, 0)]
            /\ UNCHANGED presult
    /\ UNCHANGED <<progress, timeEntries, projectProgress, nextRowId, now>>
    /\ UNCHANGED recordVars
    /\ UNCHANGED projectVars

\* GetOrCreateProjectProgress: the SELECT.  With no row the call goes on to
\* the INSERT if the driver's error is sql.ErrNoRows, and fails if the driver
\* reports the missing row with an error of its own.
LegacyGet(h) ==
    /\ pcalls[h].pc = "get"
    /\ LET c == pcalls[h]
           found == ProgressOf(projectProgress, c.user_id, c.project_id)
       IN IF found # {}
          THEN /\ pcalls' = [pcalls EXCEPT
                                ![h] = PInFlight("update", c.user_id, c.project_id,
                                                 c.req, NoCurrent,
                                                 CHOOSE r \in found : TRUE, 0)]
               /\ UNCHANGED presult
          ELSE \E isErrNoRows \in BOOLEAN :
                  IF isErrNoRows
                  THEN /\ pcalls' = [pcalls EXCEPT ![h].pc = "insert"]
                       /\ UNCHANGED presult
                  ELSE /\ presult' = ProgressOutcome("UpdateProjectProgress",
                                                     ErrGetProgressFailed,
                                                     c.user_id, c.project_id,
                                                     c.req, now, NoCurrent,
                                                     NoProgress, NoProgress)
                       /\ pcalls' = [pcalls EXCEPT ![h] = PIdle]
    /\ UNCHANGED <<progress, timeEntries, projectProgress, nextRowId, now>>
    /\ UNCHANGED recordVars
    /\ UNCHANGED projectVars

\* GetOrCreateProjectProgress: the INSERT, refused by UNIQUE(user_id, project_id)
\* when another call has inserted the pair's row in the meantime
LegacyInsert(h) ==
    /\ pcalls[h].pc = "insert"
    /\ LET c == pcalls[h]
           created == NewProjectProgress(nextRowId, c.user_id, c.project_id)
       IN IF ProgressOf(projectProgress, c.user_id, c.project_id) # {}
             \/ ~ProjectExists(c.project_id)
          THEN /\ presult' = ProgressOutcome("UpdateProjectProgress",
                                             ErrGetProgressFailed, c.user_id,
                                             c.project_id, c.req, now, NoCurrent,
                                             NoProgress, NoProgress)
               /\ pcalls' = [pcalls EXCEPT ![h] = PIdle]
               /\ UNCHANGED <<projectProgress, nextRowId>>
          ELSE /\ nextRowId <= MaxRows
               /\ projectProgress' = projectProgress \cup {created}
               /\ nextRowId' = nextRowId + 1
               /\ pcalls' = [pcalls EXCEPT
                                ![h] = PInFlight("update", c.user_id, c.project_id,
                                                 c.req, NoCurrent, created, 0)]
               /\ UNCHANGED presult
    /\ UNCHANGED <<progress, timeEntries, now>>
    /\ UNCHANGED recordVars
    /\ UNCHANGED projectVars

\* the copy takes the request's values, and DB.UpdateProjectProgress writes it
LegacyUpdate(h) ==
    /\ pcalls[h].pc = "update"
    /\ LET c == pcalls[h]
           written == WithTimestamps(CopyWithRequest(c.excluded, c.req), now)
       IN /\ projectProgress' = LegacyUpdated(projectProgress, written)
          /\ presult' = ProgressOutcome("UpdateProjectProgress", "", c.user_id,
                                        c.project_id, c.req, now, NoCurrent,
                                        c.excluded, written)
    /\ pcalls' = [pcalls EXCEPT ![h] = PIdle]
    /\ UNCHANGED <<progress, timeEntries, nextRowId, now>>
    /\ UNCHANGED recordVars
    /\ UNCHANGED projectVars

\* the requests of the cmd/server updates: a start and a completion
LegacyRequests ==
    [status : {StatusInProgress, StatusCompleted}, time_spent_minutes : {0}]

NextLegacyProgress ==
    \/ CreateProject(1, RootRequest)
    \/ Tick
    \/ \E h \in 1..NumHandlers :
          \/ \E u \in Users, p \in ProgressProjectInputs, req \in LegacyRequests :
                LegacyBegin(h, u, p, req)
          \/ LegacyGet(h)
          \/ LegacyInsert(h)
          \/ LegacyUpdate(h)

SpecLegacyProgress == Init /\ [][NextLegacyProgress]_vars

----------------------------------------------------------------------------
(* Time entries (AnalyticsService.CreateTimeEntry behind AnalyticsHandler)   *)
(* and the per-curriculum summary (CurriculumService.GetCurriculumsByUserID). *)

ErrMinutesRequired == "Project ID and positive minutes are required"
ErrDateRequired == "Date is required (YYYY-MM-DD format)"
ErrInvalidDate == "Failed to create time entry: invalid date format"
ErrCreateTimeEntryFailed == "Failed to create time entry: failed to create time entry"

Digits == {"0", "1", "2", "3", "4", "5", "6", "7", "8", "9"}

\* time.Parse("2006-01-02", s) succeeds: four digits, two digits and two
\* digits with "-" between (the month and day ranges are left to the inputs)
ParsesAsDate(s) ==
    /\ Len(s) = 10
    /\ \A i \in {1, 2, 3, 4, 6, 7, 9, 10} : SubSeq(s, i, i) \in Digits
    /\ SubSeq(s, 5, 5) = "-"
    /\ SubSeq(s, 8, 8) = "-"

\* the checks of AnalyticsHandler.CreateTimeEntry and the date parsing of the
\* service
validateTimeEntryRequest(req) ==
    IF req.project_id = 0 \/ req.minutes <= 0 THEN ErrMinutesRequired
    ELSE IF req.date = "" THEN ErrDateRequired
    ELSE IF ~ParsesAsDate(req.date) THEN ErrInvalidDate
    ELSE ""

NoTimeEntry == [id |-> 0, user_id |-> 0, project_id |-> 0, minutes |-> 0]

\* INSERT INTO time_entries (user_id, project_id, minutes, description, date)
InsertedTimeEntry(id, userID, req) ==
    [id |-> id, user_id |-> userID, project_id |-> req.project_id,
     minutes |-> req.minutes]

\* AnalyticsHandler.CreateTimeEntry with AnalyticsService.CreateTimeEntry
CreateTimeEntry(userID, req) ==
    LET invalid == validateTimeEntryRequest(req) IN
    /\ IF invalid # ""
       THEN /\ presult' = ProgressOutcome("CreateTimeEntry", invalid, userID,
                                          req.project_id, req, now, NoCurrent,
                                          NoTimeEntry, NoTimeEntry)
            /\ UNCHANGED <<timeEntries, nextRowId>>
       ELSE IF ~ProjectExists(req.project_id)
       THEN /\ presult' = ProgressOutcome("CreateTimeEntry",
                                          ErrCreateTimeEntryFailed, userID,
                                          req.project_id, req, now, NoCurrent,
                                          NoTimeEntry, NoTimeEntry)
            /\ UNCHANGED <<timeEntries, nextRowId>>
       ELSE /\ nextRowId <= MaxRows
            /\ timeEntries' = timeEntries \cup
                   {InsertedTimeEntry(nextRowId, userID, req)}
            /\ nextRowId' = nextRowId + 1
            /\ presult' = ProgressOutcome("CreateTimeEntry", "", userID,
                                          req.project_id, req, now, NoCurrent,
                                          InsertedTimeEntry(nextRowId, userID, req),
                                          InsertedTimeEntry(nextRowId, userID, req))
    /\ UNCHANGED <<progress, projectProgress, now, pcalls>>
    /\ UNCHANGED recordVars
    /\ UNCHANGED projectVars

\* a join with the progress rows of every user
JoinedProgressOfAnyUser(rows, userID, projectID) ==
    {r \in rows : r.project_id = projectID}

\* LEFT JOIN progress pr ON p.id = pr.project_id AND pr.user_id = $1
JoinedProgress(rows, userID, projectID) ==
    {r \in rows : r.project_id = projectID /\ r.user_id = userID}

\* LEFT JOIN time_entries te ON p.id = te.project_id AND te.user_id = $1
JoinedTimeEntries(rows, userID, projectID) ==
    {r \in rows : r.project_id = projectID /\ r.user_id = userID}

\* the right side of a LEFT JOIN: the matching rows, or one row of NULLs
OrNulls(matching, nulls) == IF matching = {} THEN {nulls} ELSE matching

\* the rows of curricula LEFT JOIN projects LEFT JOIN progress LEFT JOIN
\* time_entries for one curriculum; id 0 stands for the NULLs of a missing row
JoinRows(curriculumID, userID) ==
    LET ps == {p.id : p \in RowsOfCurriculum(projects, curriculumID)}
        rowsOf(pid) ==
            {[p |-> pid, pr |-> pr.id, status |-> pr.status, te |-> te.id,
              minutes |-> te.minutes] :
                pr \in OrNulls(JoinedProgress(progress, userID, pid), NoProgress),
                te \in OrNulls(JoinedTimeEntries(timeEntries, userID, pid),
                               NoTimeEntry)}
    IN IF ps = {}
       THEN {[p |-> 0, pr |-> 0, status |-> "", te |-> 0, minutes |-> 0]}
       ELSE UNION {rowsOf(pid) : pid \in ps}

\* SUM(minutes) over rows
RECURSIVE SumMinutes(_)
SumMinutes(rows) ==
    IF rows = {} THEN 0
    ELSE LET r == CHOOSE x \in rows : TRUE
         IN r.minutes + SumMinutes(rows \ {r})

\* the aggregates of one group: COUNT(p.id), COUNT(CASE WHEN pr.status =
\* 'completed' THEN 1 END) and COALESCE(SUM(te.minutes), 0)
CurriculumWithStats(c, userID) ==
    LET joined == JoinRows(c.id, userID) IN
    [id |-> c.id,
     total_projects |-> Cardinality({r \in joined : r.p # 0}),
     completed_projects |-> Cardinality({r \in joined : r.status = StatusCompleted}),
     total_time_spent |-> SumMinutes(joined)]

\* CurriculumHandler.GetCurricula with CurriculumService.GetCurriculumsByUserID
GetCurriculumsByUserID(userID) ==
    /\ presult' = ProgressOutcome("GetCurriculumsByUserID", "", userID, 0,
                                  NoProgressRequest, now, NoCurrent, NoProgress,
                                  {CurriculumWithStats(c, userID) :
                                      c \in {x \in curricula : x.user_id = userID}})
    /\ UNCHANGED <<progress, timeEntries, projectProgress, nextRowId, now, pcalls>>
    /\ UNCHANGED recordVars
    /\ UNCHANGED projectVars

\* minutes of a request that is accepted: the three of the documented scenario
MinutesInputs == {20, 30, 45}

\* requests the handler or the service refuses: no minutes, no date, and a
\* text that is no date
RefusedTimeEntryRequests ==
    {[project_id |-> 1, minutes |-> 0, date |-> "2024-01-15"],
     [project_id |-> 1, minutes |-> 30, date |-> ""],
     [project_id |-> 1, minutes |-> 30, date |-> "15.01.2024"]}

TimeEntryRequests ==
    [project_id : 1..MaxProjects, minutes : MinutesInputs, date : {"2024-01-15"}]
        \cup RefusedTimeEntryRequests

\* the one progress request of the runs with time entries
CompletedRequest == [status |-> StatusCompleted, completion_percentage |-> 100]

NextTime ==
    \/ CreateProject(1, RootRequest)
    \/ \E u \in Users : UpdateProgress(u, 1, CompletedRequest)
    \/ \E u \in Users, req \in TimeEntryRequests : CreateTimeEntry(u, req)
    \/ \E u \in Users : GetCurriculumsByUserID(u)

SpecTime == Init /\ [][NextTime]_vars

----------------------------------------------------------------------------
(* Notes (NoteService.CreateNote behind NoteHandler) and the per-learner     *)
(* statistics (AnalyticsService.GetUserOverallStats behind                   *)
(* AnalyticsHandler.GetUserStats).                                           *)

NoteTypeNote == "note"
NoteTypeReflection == "reflection"
NoteTypeLearning == "learning"
NoteTypeQuestion == "question"

ErrContentRequired == "Content is required"
ErrInvalidNoteType == "Invalid note type"
ErrCreateNoteFailed == "Failed to create note"

validTypes == {NoteTypeNote, NoteTypeReflection, NoteTypeLearning, NoteTypeQuestion}

\* the checks of NoteHandler.CreateNote, after the default of the note type
validateNoteRequest(req) ==
    IF req.content = "" THEN ErrContentRequired
    ELSE IF req.note_type # "" /\ req.note_type \notin validTypes
    THEN ErrInvalidNoteType
    ELSE ""

NoNote == [id |-> 0, user_id |-> 0, project_id |-> 0]

\* INSERT INTO notes (user_id, project_id, title, content, note_type)
InsertedNote(id, userID, projectID) ==
    [id |-> id, user_id |-> userID, project_id |-> projectID]

\* NoteHandler.CreateNote with NoteService.CreateNote
CreateNote(userID, projectID, req) ==
    LET invalid == validateNoteRequest(req) IN
    /\ IF invalid # ""
       THEN /\ presult' = ProgressOutcome("CreateNote", invalid, userID, projectID,
                                          req, now, NoCurrent, NoNote, NoNote)
            /\ UNCHANGED <<notes, nextRowId>>
       ELSE IF ~ProjectExists(projectID)
       THEN /\ presult' = ProgressOutcome("CreateNote", ErrCreateNoteFailed, userID,
                                          projectID, req, now, NoCurrent, NoNote,
                                          NoNote)
            /\ UNCHANGED <<notes, nextRowId>>
       ELSE /\ nextRowId <= MaxRows
            /\ notes' = notes \cup {InsertedNote(nextRowId, userID, projectID)}
            /\ nextRowId' = nextRowId + 1
            /\ presult' = ProgressOutcome("CreateNote", "", userID, projectID, req,
                                          now, NoCurrent,
                                          InsertedNote(nextRowId, userID, projectID),
                                          InsertedNote(nextRowId, userID, projectID))
    /\ UNCHANGED <<progress, timeEntries, projectProgress, now, pcalls,
                   legacyTimeEntries>>
    /\ UNCHANGED projectVars

\* LEFT JOIN notes n ON p.id = n.project_id AND n.user_id = $1
JoinedNotes(rows, userID, projectID) ==
    {r \in rows : r.project_id = projectID /\ r.user_id = userID}

\* the rows of curricula LEFT JOIN projects LEFT JOIN progress LEFT JOIN
\* time_entries LEFT JOIN notes WHERE c.user_id = $1; id 0 stands for the
\* NULLs of a missing row
StatsJoinRows(userID) ==
    LET rowsOf(c, pid) ==
            {[c |-> c, p |-> pid, pr |-> pr.id, status |-> pr.status,
              te |-> te.id, minutes |-> te.minutes, n |-> n.id] :
                pr \in OrNulls(JoinedProgress(progress, userID, pid), NoProgress),
                te \in OrNulls(JoinedTimeEntries(timeEntries, userID, pid),
                               NoTimeEntry),
                n \in OrNulls(JoinedNotes(notes, userID, pid), NoNote)}
        rowsOfCurriculum(c) ==
            LET ps == {p.id : p \in RowsOfCurriculum(projects, c)} IN
            IF ps = {}
            THEN {[c |-> c, p |-> 0, pr |-> 0, status |-> "", te |-> 0,
                   minutes |-> 0, n |-> 0]}
            ELSE UNION {rowsOf(c, pid) : pid \in ps}
    IN UNION {rowsOfCurriculum(c.id) : c \in {x \in curricula : x.user_id = userID}}

\* COUNT(DISTINCT e) over the rows: the values of e that are not NULL
CountDistinct(values) == Cardinality(values \ {0})

\* the aggregates of the one group: the COUNT(DISTINCT ...) columns and
\* COALESCE(SUM(te.minutes), 0)
UserOverallStats(userID) ==
    LET joined == StatsJoinRows(userID) IN
    [total_curricula |-> CountDistinct({r.c : r \in joined}),
     total_projects |-> CountDistinct({r.p : r \in joined}),
     completed_projects |->
         CountDistinct({r.p : r \in {x \in joined : x.status = StatusCompleted}}),
     in_progress_projects |->
         CountDistinct({r.p : r \in {x \in joined : x.status = StatusInProgress}}),
     total_time_minutes |-> SumMinutes(joined),
     total_notes |-> CountDistinct({r.n : r \in joined})]

\* AnalyticsHandler.GetUserStats with AnalyticsService.GetUserOverallStats
GetUserOverallStats(userID) ==
    /\ presult' = ProgressOutcome("GetUserOverallStats", "", userID, 0,
                                  NoProgressRequest, now, NoCurrent, NoProgress,
                                  UserOverallStats(userID))
    /\ UNCHANGED <<progress, timeEntries, projectProgress, nextRowId, now, pcalls>>
    /\ UNCHANGED recordVars
    /\ UNCHANGED projectVars

\* note requests: one the handler takes as it is, one it gives the default
\* type, one without content and one of a type that is none
NoteRequests ==
    {[content |-> "text", note_type |-> NoteTypeReflection],
     [content |-> "text", note_type |-> ""],
     [content |-> "", note_type |-> NoteTypeNote],
     [content |-> "text", note_type |-> "todo"]}

\* the time entry requests of the runs with notes
StatsTimeEntryRequests ==
    [project_id : {1}, minutes : {20, 30}, date : {"2024-01-15"}]

NextStats ==
    \/ CreateProject(1, RootRequest)
    \/ UpdateProgress(1, 1, CompletedRequest)
    \/ \E req \in StatsTimeEntryRequests : CreateTimeEntry(1, req)
    \/ \E u \in Users, req \in NoteRequests : CreateNote(u, 1, req)
    \/ \E u \in Users : GetUserOverallStats(u)

SpecStats == Init /\ [][NextStats]_vars

----------------------------------------------------------------------------
(* The time entries and the analytics of cmd/server: Handler.CreateTimeEntry *)
(* with DB.CreateTimeEntry, and DB.GetAnalytics behind Handler.GetAnalytics, *)
(* which the repository holds in two versions (cmd/server/main.go and        *)
(* unnamed/part_000).  The clock counts days; day 0 is a Monday.  A          *)
(* statement of the store can fail (a timeout, a lost connection): the       *)
(* statements that fail in a call are an input of the call.                  *)

ErrMinutesPositive == "Minutes must be positive"
ErrCreateTimeEntryLegacy == "Failed to create time entry"
ErrGetAnalyticsFailed == "Failed to get analytics"

\* the statements of DB.CreateTimeEntry
TimeEntryStatements == {"insert", "update"}

NoLoggedEntry ==
    [id |-> 0, user_id |-> 0, project_id |-> 0, minutes |-> 0, logged_at |-> 0]

\* the entry DB.CreateTimeEntry inserts: entry.ID = uuid.New() and, LoggedAt
\* being zero, entry.LoggedAt = now
LoggedEntry(id, userID, projectID, minutes, t) ==
    [id |-> id, user_id |-> userID, project_id |-> projectID,
     minutes |-> minutes, logged_at |-> t]

\* UPDATE project_progress SET time_spent_minutes = time_spent_minutes + $1
\* WHERE user_id = $3 AND project_id = $4
TimeSpentAdded(rows, userID, projectID, minutes) ==
    {IF r.user_id = userID /\ r.project_id = projectID
     THEN [r EXCEPT !.time_spent_minutes = @ + minutes]
     ELSE r : r \in rows}

\* what DB.CreateTimeEntry returns: err2 of the UPDATE if it failed, else the
\* err of the INSERT
createTimeEntryError(failed) ==
    IF "update" \in failed \/ "insert" \in failed
    THEN ErrCreateTimeEntryLegacy ELSE ""

\* Handler.CreateTimeEntry with DB.CreateTimeEntry; faults are the sets of
\* statements that may fail in the call
LegacyCreateTimeEntry(userID, projectID, req, faults) ==
    LET found == {p \in projects : p.id = projectID}
        entry == LoggedEntry(nextRowId, userID, projectID, req.minutes, now)
    IN /\ IF found = {}
          THEN /\ \E err \in {ErrProjectNotFoundLegacy, ErrGetProjectFailed} :
                     presult' = ProgressOutcome("CreateTimeEntryLegacy", err,
                                                userID, projectID, req, now, {},
                                                NoLoggedEntry, NoLoggedEntry)
               /\ UNCHANGED <<legacyTimeEntries, projectProgress, nextRowId>>
          ELSE IF ~OwnedBy(CHOOSE p \in found : TRUE, userID)
          THEN /\ presult' = ProgressOutcome("CreateTimeEntryLegacy",
                                             ErrAccessDenied, userID, projectID,
                                             req, now, {}, NoLoggedEntry,
                                             NoLoggedEntry)
               /\ UNCHANGED <<legacyTimeEntries, projectProgress, nextRowId>>
          ELSE IF req.minutes <= 0
          THEN /\ presult' = ProgressOutcome("CreateTimeEntryLegacy",
                                             ErrMinutesPositive, userID, projectID,
                                             req, now, {}, NoLoggedEntry,
                                             NoLoggedEntry)
               /\ UNCHANGED <<legacyTimeEntries, projectProgress, nextRowId>>
          ELSE /\ nextRowId <= MaxRows
               /\ \E failed \in faults :
                     /\ legacyTimeEntries' =
                            IF "insert" \in failed THEN legacyTimeEntries
                            ELSE legacyTimeEntries \cup {entry}
                     /\ projectProgress' =
                            IF "update" \in failed THEN projectProgress
                            ELSE TimeSpentAdded(projectProgress, userID, projectID,
                                                req.minutes)
                     /\ presult' = ProgressOutcome("CreateTimeEntryLegacy",
                                                   createTimeEntryError(failed),
                                                   userID, projectID, req, now,
                                                   failed, entry,
                                                   IF "insert" \in failed
                                                   THEN NoLoggedEntry ELSE entry)
               /\ nextRowId' = nextRowId + 1
       /\ UNCHANGED <<progress, timeEntries, notes, now, pcalls>>
       /\ UNCHANGED projectVars

\* WeeklyTimeSpent: make([]int, 8), and LIMIT 8
WeeksInSeries == 8

\* INTERVAL '56 days' and INTERVAL '8 weeks'
WindowDays == 56

\* DATE_TRUNC('week', logged_at): the Monday of the week
DateTruncWeek(t) == t - (t % 7)

\* ... FROM time_entries WHERE user_id = $1
EntriesOfUser(userID) == {e \in legacyTimeEntries : e.user_id = userID}

\* ... AND logged_at >= CURRENT_DATE - INTERVAL '56 days' (cmd/server), and
\* ... AND logged_at >= NOW() - INTERVAL '8 weeks' (part_000)
InWindow(e, t) == e.logged_at >= t - WindowDays

\* SELECT DATE_TRUNC('week', logged_at), SUM(minutes) ... GROUP BY
\* DATE_TRUNC('week', logged_at)
WeeklyRows(userID, t) ==
    LET inWindow == {e \in EntriesOfUser(userID) : InWindow(e, t)} IN
    {[week_start |-> w,
      total_minutes |->
          SumMinutes({e \in inWindow : DateTruncWeek(e.logged_at) = w})] :
        w \in {DateTruncWeek(e.logged_at) : e \in inWindow}}

ZeroSeries == [i \in 1..WeeksInSeries |-> 0]

\* ORDER BY week_start DESC LIMIT 8, and the loop that writes the rows one
\* after the other from WeeklyTimeSpent[0] on
FilledInOrder(rows) ==
    [i \in 1..WeeksInSeries |->
        LET at == {r \in rows :
                      Cardinality({x \in rows : x.week_start > r.week_start})
                          = i - 1}
        IN IF at = {} THEN 0 ELSE (CHOOSE r \in at : TRUE).total_minutes]

\* weeksAgo := int(time.Since(week).Hours() / 24 / 7), and
\* weeklyTimeSpent[7-weeksAgo] = minutes if weeksAgo >= 0 && weeksAgo < 8
FilledByWeeksAgo(rows, t) ==
    [i \in 1..WeeksInSeries |->
        LET at == {r \in rows : (t - r.week_start) \div 7 = WeeksInSeries - i}
        IN IF at = {} THEN 0 ELSE (CHOOSE r \in at : TRUE).total_minutes]

\* SUM(time_spent_minutes) over rows
RECURSIVE SumTimeSpent(_)
SumTimeSpent(rows) ==
    IF rows = {} THEN 0
    ELSE LET r == CHOOSE x \in rows : TRUE
         IN r.time_spent_minutes + SumTimeSpent(rows \ {r})

\* the projects of the learner's curricula: curricula c JOIN projects p ...
\* WHERE c.user_id = $1
ProjectsOfUser(userID) == {p \in projects : OwnedBy(p, userID)}

\* LEFT JOIN project_progress pp ON p.id = pp.project_id AND pp.user_id = $1
ProgressOfProjects(userID) ==
    {pp \in projectProgress :
        pp.user_id = userID /\ \E p \in ProjectsOfUser(userID) : p.id = pp.project_id}

\* SELECT p.project_type, COUNT(*) ... GROUP BY p.project_type
ProjectsByType(userID) ==
    [t \in {p.project_type : p \in ProjectsOfUser(userID)} |->
        Cardinality({p \in ProjectsOfUser(userID) : p.project_type = t})]

\* the AnalyticsResponse as GetAnalytics makes it before any query
EmptyAnalytics ==
    [total_projects |-> 0, completed_projects |-> 0, in_progress_projects |-> 0,
     total_time_spent |-> 0, projects_by_type |-> [t \in {} |-> 0],
     weekly_time_spent |-> ZeroSeries]

\* the queries of DB.GetAnalytics of cmd/server
AnalyticsQueries == {"basicStats", "typeStats", "recentActivity", "weeklyTime"}

\* DB.GetAnalytics of cmd/server/main.go with the queries in failed failing:
\* "Return empty analytics on error", and later queries are used "if err == nil"
AnalyticsResponse(userID, t, failed) ==
    IF "basicStats" \in failed THEN EmptyAnalytics
    ELSE LET pps == ProgressOfProjects(userID)
             total == Cardinality(ProjectsOfUser(userID))
         IN [total_projects |-> total,
             completed_projects |->
                 Cardinality({pp \in pps : pp.status = StatusCompleted}),
             in_progress_projects |->
                 Cardinality({pp \in pps : pp.status = StatusInProgress}),
             total_time_spent |-> SumTimeSpent(pps),
             projects_by_type |->
                 IF total > 0 /\ "typeStats" \notin failed
                 THEN ProjectsByType(userID) ELSE [x \in {} |-> 0],
             weekly_time_spent |->
                 IF total > 0 /\ "weeklyTime" \notin failed
                 THEN FilledInOrder(WeeklyRows(userID, t)) ELSE ZeroSeries]

\* Handler.GetAnalytics with DB.GetAnalytics of cmd/server/main.go, which
\* returns a nil error whatever fails
GetAnalytics(userID, failed) ==
    /\ presult' = ProgressOutcome("GetAnalytics", "", userID, 0, NoProgressRequest,
                                  now, failed, NoProgress,
                                  AnalyticsResponse(userID, now, failed))
    /\ UNCHANGED <<progress, timeEntries, projectProgress, nextRowId, now, pcalls>>
    /\ UNCHANGED recordVars
    /\ UNCHANGED projectVars

\* the queries of DB.GetAnalytics of part_000
AnalyticsQueriesByWeeksAgo ==
    {"totalProjects", "progress", "projectsByType", "completionByType",
     "recentActivity", "weeklyTime"}

\* ... FROM project_progress pp WHERE pp.user_id = $1
ProgressOfUser(userID) == {pp \in projectProgress : pp.user_id = userID}

\* DB.GetAnalytics of unnamed/part_000 when no query fails
AnalyticsResponseByWeeksAgo(userID, t) ==
    LET pps == ProgressOfUser(userID) IN
    [total_projects |-> Cardinality(ProjectsOfUser(userID)),
     completed_projects |-> Cardinality({pp \in pps : pp.status = StatusCompleted}),
     in_progress_projects |->
         Cardinality({pp \in pps : pp.status = StatusInProgress}),
     total_time_spent |-> SumTimeSpent(pps),
     projects_by_type |-> ProjectsByType(userID),
     weekly_time_spent |-> FilledByWeeksAgo(WeeklyRows(userID, t), t)]

\* Handler.GetAnalytics with DB.GetAnalytics of unnamed/part_000, which
\* returns the error of the first query that fails
GetAnalyticsByWeeksAgo(userID, failed) ==
    /\ presult' = IF failed # {}
                  THEN ProgressOutcome("GetAnalyticsByWeeksAgo",
                                       ErrGetAnalyticsFailed, userID, 0,
                                       NoProgressRequest, now, failed, NoProgress,
                                       EmptyAnalytics)
                  ELSE ProgressOutcome("GetAnalyticsByWeeksAgo", "", userID, 0,
                                       NoProgressRequest, now, failed, NoProgress,
                                       AnalyticsResponseByWeeksAgo(userID, now))
    /\ UNCHANGED <<progress, timeEntries, projectProgress, nextRowId, now, pcalls>>
    /\ UNCHANGED recordVars
    /\ UNCHANGED projectVars

\* the latest day the clock of the analytics runs reaches: the tenth week
MaxDay == 64

\* a week passes between two calls
WeekPasses ==
    /\ now + 7 <= MaxDay
    /\ now' = now + 7
    /\ UNCHANGED <<progress, timeEntries, projectProgress, nextRowId, presult,
                   pcalls>>
    /\ UNCHANGED recordVars
    /\ UNCHANGED projectVars

\* time entry requests of cmd/server: half an hour, and no minutes
LegacyTimeEntryRequests == [minutes : {0, 30}]

\* any of the statements of DB.CreateTimeEntry may fail
StatementFaults == SUBSET TimeEntryStatements

\* no query fails, or one does
AnalyticsFaults == {{}} \cup {{q} : q \in AnalyticsQueries}

AnalyticsFaultsByWeeksAgo == {{}, {"totalProjects"}, {"weeklyTime"}}

NextAnalytics ==
    \/ CreateProject(1, RootRequest)
    \/ \E req \in LegacyTimeEntryRequests :
           LegacyCreateTimeEntry(1, 1, req, StatementFaults)
    \/ WeekPasses
    \/ \E failed \in AnalyticsFaults : GetAnalytics(1, failed)
    \/ \E failed \in AnalyticsFaultsByWeeksAgo : GetAnalyticsByWeeksAgo(1, failed)

SpecAnalytics == Init /\ [][NextAnalytics]_vars

\* progress requests of cmd/server that carry a time
LegacyTimeRequests ==
    [status : {StatusInProgress}, time_spent_minutes : {0, 30}]

\* one request handler: the progress updates and the time entries of
\* cmd/server, each call after the other
NextLegacyTime ==
    \/ CreateProject(1, RootRequest)
    \/ \E u \in Users, req \in LegacyTimeRequests :
           /\ \A h \in 1..NumHandlers : pcalls[h] = PIdle
           /\ LegacyBegin(1, u, 1, req)
    \/ LegacyGet(1)
    \/ LegacyInsert(1)
    \/ LegacyUpdate(1)
    \/ \E u \in Users, req \in LegacyTimeEntryRequests :
           /\ \A h \in 1..NumHandlers : pcalls[h] = PIdle
           /\ LegacyCreateTimeEntry(u, 1, req, StatementFaults)

SpecLegacyTime == Init /\ [][NextLegacyTime]_vars

----------------------------------------------------------------------------
(* The claims about identifiers. *)

\* the step just taken was a CreateProject call that returned
CreateReturned == result'.op = "CreateProject" /\ result' # result

\* the step just taken was a CreateProject call that returned a new project
CreateSucceeded == CreateReturned /\ result'.err = "" /\ result'.id = nextProjectId

\* the types the documentation numbers, with the prefix it gives each
SequentialTypes ==
    {ProjectTypeRoot, ProjectTypeBase, ProjectTypeLowerBranch,
     ProjectTypeMiddleBranch, ProjectTypeUpperBranch, ProjectTypeFlowerMilestone}

DocumentedPrefix(t) ==
    CASE t = ProjectTypeRoot -> "R"
      [] t = ProjectTypeRootTest -> "RT"
      [] t = ProjectTypeBase -> "B"
      [] t = ProjectTypeBaseTest -> "BT"
      [] t = ProjectTypeLowerBranch -> "LB"
      [] t = ProjectTypeMiddleBranch -> "MB"
      [] t = ProjectTypeUpperBranch -> "UB"
      [] t = ProjectTypeFlowerMilestone -> "F"

TestTypes == {ProjectTypeRootTest, ProjectTypeBaseTest}

\* C1: two concurrent CreateProject calls with the same sequential type in the
\* same curriculum never both succeed with the same identifier: no two rows
\* that CreateProject inserted for one curriculum and one sequential type carry
\* the same identifier.
C1_ConcurrentCreatesGetDistinctIdentifiers ==
    \A p, q \in projects :
        (/\ p.id # q.id
         /\ p.curriculum_id = q.curriculum_id
         /\ p.project_type = q.project_type
         /\ p.project_type \in SequentialTypes) => p.identifier # q.identifier

\* C2: after any sequence of CreateProject, UpdateProject and DeleteProject
\* calls run one at a time, no two projects of the same curriculum carry the
\* same identifier.
C2_IdentifierUniqueInCurriculum ==
    \A p, q \in projects :
        (p.curriculum_id = q.curriculum_id /\ p.identifier = q.identifier) => p.id = q.id

\* C3: an identifier a successful CreateProject returned in a curriculum is
\* never returned again by a later CreateProject in that curriculum, also after
\* the project that held it was deleted.
C3_IdentifierNeverReturnedAgain ==
    [][CreateSucceeded =>
          <<result'.curriculum_id, result'.identifier>> \notin issued]_vars

\* C4: with calls one at a time and no project deleted, the k-th successful
\* CreateProject of a sequential type in a curriculum returns prefix+k.
C4_KthCreateGetsPrefixK ==
    (/\ result.op = "CreateProject"
     /\ result.err = ""
     /\ result.req.project_type \in SequentialTypes
     /\ ~anyDeleted)
    => result.identifier =
           DocumentedPrefix(result.req.project_type)
               \o ToString(CountOf(createdCount,
                                   <<result.curriculum_id, result.req.project_type>>))

\* C5: with calls one at a time, the first CreateProject of a test type in a
\* curriculum returns RT (BT), and every later one, while that project exists,
\* fails with the conflict error and adds no project.
C5_SecondTestProjectRejected ==
    [][\A c \in {x.id : x \in curricula}, t \in TestTypes :
          (/\ CreateReturned
           /\ result'.curriculum_id = c
           /\ result'.req.project_type = t)
          => /\ CountOf(createdCount, <<c, t>>) = 0
                => (result'.err = "" /\ result'.identifier = DocumentedPrefix(t))
             /\ (\E p \in projects :
                    p.curriculum_id = c /\ p.identifier = DocumentedPrefix(t))
                => (result'.err = ErrTestProjectExists /\ projects' = projects)]_vars

\* C6: each curriculum holds at most one project of type rootTest and at most
\* one of type baseTest.
C6_AtMostOneTestProject ==
    \A c \in {x.id : x \in curricula}, t \in TestTypes : CountOfType(projects, c, t) <= 1

\* the identifier is the documented prefix of the type followed by a number
\* (test types: the prefix alone)
HasShapeOfType(identifier, t) ==
    IF t \in TestTypes
    THEN identifier = DocumentedPrefix(t)
    ELSE \E n \in 1..nextProjectId : identifier = DocumentedPrefix(t) \o ToString(n)

\* C7: after any sequence of CreateProject and UpdateProject calls, every
\* project's identifier has the shape of its current project type.
C7_IdentifierHasShapeOfCurrentType ==
    \A p \in projects : HasShapeOfType(p.identifier, p.project_type)

\* C8: no step changes the identifier of a project that stays in the table:
\* UpdateProject keeps it whatever identifier the request carries, and a project
\* has the identifier of its creation until it is deleted.
C8_IdentifierImmutable ==
    [][\A p \in projects : \A q \in projects' :
          q.id = p.id => q.identifier = p.identifier]_vars

\* C8 happens: an UpdateProject whose request carries another identifier has
\* succeeded, and the project still has its own.
C8_Witness ==
    /\ result.op = "UpdateProject"
    /\ result.err = ""
    /\ result.req.identifier # ""
    /\ \E p \in projects :
          /\ p.id = result.id
          /\ p.identifier # result.req.identifier
          /\ <<p.curriculum_id, p.identifier>> \in issued

----------------------------------------------------------------------------
(* The claims about prerequisites. *)

\* C9: after any sequence of CreateProject, UpdateProject and DeleteProject
\* calls, every identifier stored in a project's prerequisites is the
\* identifier of a project of the same curriculum with a strictly smaller
\* position_order.
C9_PrerequisitesResolveToEarlierProjects ==
    \A p \in projects : \A i \in 1..Len(p.prerequisites) :
        \E q \in projects :
            /\ q.curriculum_id = p.curriculum_id
            /\ q.identifier = p.prerequisites[i]
            /\ q.position_order < p.position_order

\* the projects of the curriculum that a listed prerequisite names
NamedBy(curriculumID, prereq) ==
    {q \in projects : q.curriculum_id = curriculumID /\ q.identifier = prereq}

\* a call with this list on a subject of this order must be refused as out of
\* order: every listed prerequisite names a project, and one names a project
\* that does not come strictly before the subject
MustBeRefused(curriculumID, prerequisites, subjectOrder) ==
    /\ \A i \in 1..Len(prerequisites) : NamedBy(curriculumID, prerequisites[i]) # {}
    /\ \E i \in 1..Len(prerequisites) :
          \E q \in NamedBy(curriculumID, prerequisites[i]) :
              q.position_order >= subjectOrder

\* every listed prerequisite names only projects strictly before the subject
MustBeAccepted(curriculumID, prerequisites, subjectOrder) ==
    \A i \in 1..Len(prerequisites) :
        /\ NamedBy(curriculumID, prerequisites[i]) # {}
        /\ \A q \in NamedBy(curriculumID, prerequisites[i]) :
              q.position_order < subjectOrder

\* the outcome the claim prescribes for a call with this list and subject order
OrderRuleKept(curriculumID, prerequisites, subjectOrder) ==
    /\ MustBeRefused(curriculumID, prerequisites, subjectOrder)
          => (result'.err = ErrPrereqMustComeBefore /\ projects' = projects)
    /\ MustBeAccepted(curriculumID, prerequisites, subjectOrder)
          => result'.err = ""

\* C10: CreateProject (against the supplied position_order) and UpdateProject
\* (against the project's own position_order) fail with the out-of-order error
\* and write nothing when a listed prerequisite names a project whose
\* position_order is not strictly less, and accept it when it is strictly
\* less, for every integer position_order.
C10_OutOfOrderPrerequisiteRefused ==
    [][/\ (result'.op = "CreateProject" /\ result' # result)
            => OrderRuleKept(result'.curriculum_id, result'.req.prerequisites,
                             result'.req.position_order)
       /\ (result'.op = "UpdateProject" /\ result' # result)
            => \A p \in projects :
                  p.id = result'.id
                  => OrderRuleKept(p.curriculum_id, result'.req.prerequisites,
                                   p.position_order)]_vars

\* the listed prerequisites that are the identifier of no project of the curriculum
UnknownIn(curriculumID, prerequisites) ==
    {i \in 1..Len(prerequisites) : NamedBy(curriculumID, prerequisites[i]) = {}}

\* the outcome the claim prescribes for a call whose list has an unknown entry:
\* nothing is written and the call fails with a prerequisite error, which is the
\* unknown-prerequisite error when it is the first entry that is unknown
UnknownRuleKept(curriculumID, prerequisites) ==
    UnknownIn(curriculumID, prerequisites) # {}
        => /\ projects' = projects
           /\ result'.err \in {ErrPrereqDoesNotExist, ErrPrereqMustComeBefore}
           /\ 1 \in UnknownIn(curriculumID, prerequisites)
                 => result'.err = ErrPrereqDoesNotExist

\* C11: CreateProject and UpdateProject fail with the unknown-prerequisite
\* error and write nothing when a listed prerequisite is not the identifier of
\* a project currently in the same curriculum; an identifier that exists only
\* in another curriculum counts as unknown.
C11_UnknownPrerequisiteRefused ==
    [][/\ (result'.op = "CreateProject" /\ result' # result)
            => UnknownRuleKept(result'.curriculum_id, result'.req.prerequisites)
       /\ (result'.op = "UpdateProject" /\ result' # result)
            => \A p \in projects :
                  p.id = result'.id
                  => UnknownRuleKept(p.curriculum_id, result'.req.prerequisites)]_vars

\* the other projects of p's curriculum that list p's identifier as a prerequisite
DependentsOf(p) ==
    {q \in projects : /\ q.curriculum_id = p.curriculum_id
                      /\ q.id # p.id
                      /\ p.identifier \in Elements(q.prerequisites)}

\* C12: DeleteProject of a project whose identifier appears in the
\* prerequisites of another project of the same curriculum fails with the
\* has-dependents error and deletes nothing; when no project lists the
\* identifier, DeleteProject of it succeeds and removes it.
C12_DeleteRefusedWhileDependentsExist ==
    [][(result'.op = "DeleteProject" /\ result' # result)
          => \A p \in projects :
                p.id = result'.id
                => /\ DependentsOf(p) # {}
                      => (result'.err = ErrHasDependents /\ projects' = projects)
                   /\ DependentsOf(p) = {}
                      => (result'.err = "" /\ p \notin projects')]_vars

----------------------------------------------------------------------------
(* The claims about progress. *)

\* the step just taken was an UpdateProgress call that returned
ProgressUpdateReturned == presult'.op = "UpdateProgress" /\ presult' # presult

\* C13: every progress record with status not_started has
\* completion_percentage 0, and every record with status completed has
\* completion_percentage 100 and a completed_at that is not NULL, whatever
\* percentage the requests carried.
C13_PercentageFollowsStatus ==
    \A r \in progress :
        /\ r.status = StatusNotStarted => r.completion_percentage = 0
        /\ r.status = StatusCompleted
              => r.completion_percentage = 100 /\ r.completed_at # NullTime

\* C13 happens: a request for completed that carried 50 was stored
C13_Witness ==
    /\ presult.op = "UpdateProgress" /\ presult.err = ""
    /\ presult.req = [status |-> StatusCompleted, completion_percentage |-> 50]
    /\ \E r \in progress : r.status = StatusCompleted /\ r = presult.row

\* C15: an UpdateProgress to any status other than not_started, on a pair
\* whose record is absent or is not_started with no started_at, leaves a
\* record whose started_at is the time of that call; a later move to
\* completed gives completion_percentage 100 and a completed_at, with
\* started_at unchanged.
C15_StartedAtSetOnFirstMove ==
    [][(ProgressUpdateReturned /\ presult'.err = "")
          => LET before == ProgressOf(progress, presult'.user_id, presult'.project_id)
                 after == ProgressOf(progress', presult'.user_id, presult'.project_id)
             IN /\ ( /\ presult'.req.status # StatusNotStarted
                     /\ \A r \in before : /\ r.status = StatusNotStarted
                                          /\ r.started_at = NullTime )
                      => /\ after # {}
                         /\ \A r \in after : r.started_at = presult'.at
                /\ presult'.req.status = StatusCompleted
                      => \A r \in before : r.started_at # NullTime
                            => \A q \in after :
                                  /\ q.completion_percentage = 100
                                  /\ q.completed_at # NullTime
                                  /\ q.started_at = r.started_at]_vars

\* C15 happens: a record started at one time was completed at a later time
C15_Witness ==
    /\ presult.op = "UpdateProgress" /\ presult.err = ""
    /\ presult.req.status = StatusCompleted
    /\ \E r \in progress :
          /\ r = presult.row
          /\ r.started_at # NullTime
          /\ r.started_at < r.completed_at
          /\ r.completion_percentage = 100

\* the errors ProgressHandler.UpdateProgress refuses a request with
ValidationErrors == {ErrStatusRequired, ErrInvalidStatus, ErrPercentageRange}

\* C17: an UpdateProgress request whose completion_percentage is below 0 or
\* above 100 is refused with a validation error and leaves the progress table
\* as it was; every stored completion_percentage lies in 0..100.
C17_OutOfRangePercentageRefused ==
    [][/\ (ProgressUpdateReturned
             /\ presult'.req.completion_percentage \notin 0..100)
            => (presult'.err \in ValidationErrors /\ progress' = progress)
       /\ \A r \in progress' : r.completion_percentage \in 0..100]_vars

\* C17 happens: a request with 101 on a pair that has a record was refused
C17_Witness ==
    /\ presult.op = "UpdateProgress"
    /\ presult.err = ErrPercentageRange
    /\ presult.req.completion_percentage = 101
    /\ presult.req.status = StatusInProgress
    /\ ProgressOf(progress, presult.user_id, presult.project_id) # {}

\* C18: GetProgressByProjectID never creates or changes a progress record; for
\* a pair with no record it returns status not_started, percentage 0 and no
\* timestamps, and the table still has no record for the pair.
C18_GetProgressWritesNothing ==
    [][(presult'.op = "GetProgressByProjectID" /\ presult' # presult)
          => /\ progress' = progress
             /\ ProgressOf(progress, presult'.user_id, presult'.project_id) = {}
                   => /\ presult'.row.status = StatusNotStarted
                      /\ presult'.row.completion_percentage = 0
                      /\ presult'.row.started_at = NullTime
                      /\ presult'.row.completed_at = NullTime
                      /\ ProgressOf(progress', presult'.user_id,
                                    presult'.project_id) = {}]_vars

\* C18 happens: the progress of an existing project without a record was
\* fetched
C18_Witness ==
    /\ presult.op = "GetProgressByProjectID"
    /\ ProjectExists(presult.project_id)
    /\ ProgressOf(progress, presult.user_id, presult.project_id) = {}
    /\ presult.row = DefaultProgress(presult.user_id, presult.project_id)

\* C14: once a progress record's started_at is set, every later UpdateProgress
\* on the same pair, in any sequence of statuses and under any interleaving
\* of concurrent calls, leaves started_at at exactly that value.
C14_StartedAtNeverChanges ==
    [][\A r \in progress :
          r.started_at # NullTime
          => /\ ProgressOf(progress', r.user_id, r.project_id) # {}
             /\ \A q \in ProgressOf(progress', r.user_id, r.project_id) :
                   q.started_at = r.started_at]_vars

\* C14 happens: an update sent a started_at of its own to a record that had
\* one, and the record kept the earlier one
C14_Witness ==
    /\ presult.op = "UpdateProgress" /\ presult.err = ""
    /\ presult.sent.started_at # NullTime
    /\ presult.row.started_at # NullTime
    /\ presult.row.started_at < presult.sent.started_at
    /\ presult.row \in progress

\* C19: there is at most one progress record per (learner, project) pair under
\* any interleaving of concurrent UpdateProgress calls on the pair, two first
\* updates included; each such call creates the single record or updates it.
C19_OneRecordPerPair ==
    [][/\ \A r \in progress' : \A q \in progress' :
             (r.user_id = q.user_id /\ r.project_id = q.project_id) => r = q
       /\ (ProgressUpdateReturned /\ presult'.err = "")
             => ProgressOf(progress', presult'.user_id, presult'.project_id)
                    = {presult'.row}]_vars

\* C19 happens: an update that had read no record found one at its INSERT and
\* updated it
C19_Witness ==
    /\ presult.op = "UpdateProgress" /\ presult.err = ""
    /\ presult.read.status = ""
    /\ presult.row.id # presult.sent.id
    /\ ProgressOf(progress, presult.user_id, presult.project_id) = {presult.row}

\* C16: on the path that reads the record with GetOrCreateProjectProgress and
\* writes it back with UpdateProjectProgress, for any interleaving of two
\* updates of the same pair, the update writes what the timestamp rules give
\* on the record as persisted when it writes: a started_at or completed_at
\* another update has persisted since the read is neither cleared nor
\* overwritten.
C16_TimestampsFromPersistedState ==
    [][(presult'.op = "UpdateProjectProgress" /\ presult'.err = ""
          /\ presult' # presult)
          => \A r \in projectProgress :
                r.id = presult'.row.id
                => WithTimestamps(CopyWithRequest(r, presult'.req), presult'.at)
                      \in projectProgress']_vars

----------------------------------------------------------------------------
(* The claims about the summaries. *)

\* the learner's time entries on the projects of a curriculum
EntriesOn(curriculumID, userID) ==
    {te \in timeEntries :
        /\ te.user_id = userID
        /\ \E p \in projects : p.id = te.project_id /\ p.curriculum_id = curriculumID}

\* C20: for every curriculum of a learner, the total_time_spent of the
\* per-curriculum summary is the sum of the minutes of all of the learner's
\* time entries on projects of that curriculum, for any number of entries per
\* project and whether or not a progress record exists.
C20_TotalTimeIsSumOfEntries ==
    [][(presult'.op = "GetCurriculumsByUserID" /\ presult' # presult)
          => \A c \in curricula :
                c.user_id = presult'.user_id
                => \E s \in presult'.row :
                      /\ s.id = c.id
                      /\ s.total_time_spent
                            = SumMinutes(EntriesOn(c.id, presult'.user_id))]_vars

\* C20 happens: the summary reports 95 minutes for a curriculum with entries
\* of 30, 45 and 20 minutes on a project the learner has a progress record for
C20_Witness ==
    /\ presult.op = "GetCurriculumsByUserID"
    /\ \E s \in presult.row :
          /\ s.total_time_spent = 95
          /\ \E p \in projects :
                /\ p.curriculum_id = s.id
                /\ ProgressOf(progress, presult.user_id, p.id) # {}
                /\ {te.minutes : te \in JoinedTimeEntries(timeEntries,
                                                            presult.user_id, p.id)}
                      = {20, 30, 45}

\* the learner's projects of a curriculum whose progress status is completed
CompletedOn(curriculumID, userID) ==
    {p \in RowsOfCurriculum(projects, curriculumID) :
        \E pr \in ProgressOf(progress, userID, p.id) : pr.status = StatusCompleted}

\* C21: for every curriculum of a learner, the per-curriculum summary reports
\* total_projects equal to the number of projects in the curriculum and
\* completed_projects equal to the number of those projects whose progress
\* status for the learner is completed, however many time entries the
\* projects have.
C21_ProjectCountsIgnoreTimeEntries ==
    [][(presult'.op = "GetCurriculumsByUserID" /\ presult' # presult)
          => \A c \in curricula :
                c.user_id = presult'.user_id
                => \E s \in presult'.row :
                      /\ s.id = c.id
                      /\ s.total_projects
                            = Cardinality(RowsOfCurriculum(projects, c.id))
                      /\ s.completed_projects
                            = Cardinality(CompletedOn(c.id, presult'.user_id))]_vars

----------------------------------------------------------------------------
(* The claims about the timestamps of a progress record. *)

\* C28: under any interleaving of concurrent UpdateProgress calls on the same
\* (learner, project), a progress record that has both started_at and
\* completed_at set has started_at not later than completed_at.
C28_StartedNotAfterCompleted ==
    \A r \in progress :
        (r.started_at # NullTime /\ r.completed_at # NullTime)
            => r.started_at <= r.completed_at

\* C29: a progress record written by UpdateProgress has completed_at set if
\* and only if its status is completed: an update to another status clears
\* completed_at, and an update to completed of a completed record replaces
\* completed_at by the time of the new call.
C29_CompletedAtIffCompleted ==
    /\ [](\A r \in progress :
             (r.completed_at # NullTime) <=> (r.status = StatusCompleted))
    /\ [][(ProgressUpdateReturned /\ presult'.err = "")
             => /\ presult'.row \in progress'
                /\ presult'.row.completed_at
                      = IF presult'.req.status = StatusCompleted
                        THEN presult'.at ELSE NullTime]_vars

\* C29 happens: a completed record was set to completed again at a later time
\* and carries the time of the later call
C29_Witness ==
    /\ presult.op = "UpdateProgress"
    /\ presult.err = ""
    /\ presult.read.status = StatusCompleted
    /\ presult.req.status = StatusCompleted
    /\ presult.read.started_at < presult.at
    /\ presult.row.completed_at = presult.at
    /\ presult.row \in progress

\* C30: under any sequence or interleaving of UpdateProgress calls, every
\* progress record whose status is not not_started has a started_at.
C30_StartedAtSetUnlessNotStarted ==
    \A r \in progress :
        r.status # StatusNotStarted => r.started_at # NullTime

\* C30 happens: an update that read a not_started record without started_at
\* moved it to another status, and the record has a started_at
C30_Witness ==
    /\ presult.op = "UpdateProgress"
    /\ presult.err = ""
    /\ presult.read.status = StatusNotStarted
    /\ presult.read.started_at = NullTime
    /\ presult.req.status # StatusNotStarted
    /\ presult.row \in progress
    /\ presult.row.started_at # NullTime

----------------------------------------------------------------------------
(* The claim about ownership. *)

\* the curricula of a learner and the projects in them
OwnedCurricula(userID) == {c \in curricula : c.user_id = userID}

OwnedProjects(userID) == {p \in projects : OwnedBy(p, userID)}

\* the step is a request made with the identity of the learner
RequestBy(userID) ==
    \/ \E c \in CurriculumInputs, req \in CreateTypeRequests :
           ProjectHandlerCreateProject(userID, c, req)
    \/ \E id \in ProjectIdInputs, req \in UpdateTypeRequests :
           UpdateProject(userID, id, req)
    \/ \E id \in ProjectIdInputs : DeleteProject(userID, id)

\* C26: no operation invoked with learner A's identity creates, changes or
\* deletes a curriculum or a project in a curriculum owned by a different
\* learner B: B's curricula and projects are the same after the request as
\* before it.
C26_OtherLearnersRowsUntouched ==
    [][\A a \in Users :
          RequestBy(a)
              => \A b \in Users \ {a} :
                    /\ OwnedCurricula(b)' = OwnedCurricula(b)
                    /\ OwnedProjects(b)' = OwnedProjects(b)]_vars

----------------------------------------------------------------------------
(* The claim about the per-learner statistics. *)

\* the learner's time entries on projects of the learner's curricula
EntriesOfLearner(userID) ==
    UNION {EntriesOn(c.id, userID) : c \in OwnedCurricula(userID)}

\* C22: GetUserOverallStats reports total_time_minutes equal to the sum of the
\* minutes of all of the learner's time entries on projects of the learner's
\* curricula, however many notes those projects have; total_curricula,
\* total_projects, completed_projects and total_notes are the numbers of
\* distinct records.
C22_OverallStatsCountEachRecordOnce ==
    [][(presult'.op = "GetUserOverallStats" /\ presult' # presult)
          => LET u == presult'.user_id
                 stats == presult'.row
             IN /\ stats.total_time_minutes = SumMinutes(EntriesOfLearner(u))
                /\ stats.total_curricula = Cardinality(OwnedCurricula(u))
                /\ stats.total_projects = Cardinality(OwnedProjects(u))
                /\ stats.completed_projects
                      = Cardinality(UNION {CompletedOn(c.id, u) :
                                              c \in OwnedCurricula(u)})
                /\ stats.total_notes
                      = Cardinality({n \in notes :
                            /\ n.user_id = u
                            /\ \E p \in OwnedProjects(u) : p.id = n.project_id})]_vars

----------------------------------------------------------------------------
(* The claims about the analytics and the time entries of cmd/server. *)

\* the step just taken was a GetAnalytics call, of either version, that returned
AnalyticsReturned ==
    /\ presult'.op \in {"GetAnalytics", "GetAnalyticsByWeeksAgo"}
    /\ presult' # presult

\* the sum of a series
SumSeries(series) ==
    SumMinutes({[i |-> i, minutes |-> series[i]] : i \in DOMAIN series})

\* C23: the weekly time series returned by GetAnalytics has exactly 8 entries,
\* its sum never exceeds the learner's minutes logged inside the 8-week
\* window, and the sum of the 8 buckets plus the minutes logged outside the
\* window equals the learner's total logged minutes (stated for the calls in
\* which no query failed).
C23_WeeklySeriesAccountsForAllMinutes ==
    [][(AnalyticsReturned /\ presult'.read = {} /\ presult'.err = "")
          => LET series == presult'.row.weekly_time_spent
                 entries == EntriesOfUser(presult'.user_id)
                 inside == {e \in entries : InWindow(e, now)}
             IN /\ Len(series) = 8
                /\ SumSeries(series) <= SumMinutes(inside)
                /\ SumSeries(series) + SumMinutes(entries \ inside)
                      = SumMinutes(entries)]_vars

\* the learner's minutes logged in the calendar week that starts at week
MinutesInWeek(userID, week) ==
    SumMinutes({e \in EntriesOfUser(userID) : DateTruncWeek(e.logged_at) = week})

\* the series whose position i is the week i - 1 weeks before the week of t
NewestFirst(userID, t) ==
    [i \in 1..8 |-> MinutesInWeek(userID, DateTruncWeek(t) - 7 * (i - 1))]

\* the series whose position i is the week 8 - i weeks before the week of t
OldestFirst(userID, t) ==
    [i \in 1..8 |-> MinutesInWeek(userID, DateTruncWeek(t) - 7 * (8 - i))]

\* C24: in the weekly time series each of the 8 positions stands for one
\* fixed calendar week of the window, in one consistent order: the entry at a
\* position is the minutes logged in that week, and a week with no time
\* entries reports 0 at its own position (stated for the calls in which no
\* query failed; either order of the weeks is taken).
C24_EachPositionIsOneWeek ==
    [][(AnalyticsReturned /\ presult'.read = {} /\ presult'.err = "")
          => \/ presult'.row.weekly_time_spent = NewestFirst(presult'.user_id, now)
             \/ presult'.row.weekly_time_spent = OldestFirst(presult'.user_id, now)]_vars

\* C25: whenever a store query or statement fails inside an operation, the
\* operation returns an error to its caller; no operation, analytics
\* aggregation included, reports success after a storage failure.
C25_StorageFailureSurfaced ==
    [][(/\ presult' # presult
        /\ presult'.op \in {"GetAnalytics", "GetAnalyticsByWeeksAgo",
                            "CreateTimeEntryLegacy"}
        /\ presult'.read # {})
          => presult'.err # ""]_vars

\* the time entries of a learner on a project
EntriesOfPair(userID, projectID) ==
    {e \in legacyTimeEntries : e.user_id = userID /\ e.project_id = projectID}

\* C27: for every (learner, project) pair that has a progress record, the
\* record's time_spent_minutes equals the sum of the minutes of all time
\* entries logged for that pair, after any sequence of CreateTimeEntry and
\* progress updates, entries logged before the record existed and failed
\* inserts included.
C27_TimeSpentIsSumOfEntries ==
    (\A h \in 1..NumHandlers : pcalls[h] = PIdle)
        => \A pp \in projectProgress :
              pp.time_spent_minutes
                  = SumMinutes(EntriesOfPair(pp.user_id, pp.project_id))

====
